---- MODULE Spec2Model ----
(***************************************************************************)
(* Model of the FNOL extraction feedback loop (src/src/main.py,            *)
(* _apply_feedback_loop) and of the response parsing it depends on         *)
(* (markdown-fence stripping, json.loads, pydantic construction of         *)
(* BatchFNOLInfo from src/src/models.py).                                  *)
(*                                                                         *)
(* Response texts are sequences of tokens.  A token is a string: the       *)
(* structural characters "{" "}" "[" "]", a key with its colon             *)
(* ("claims:"), a scalar literal ("10", "true", "null", "'C001'"), the     *)
(* fence marker "FENCE" (three backquotes), the language tag "json", a     *)
(* prose word "p" or whitespace " ".                                       *)
(* Commas are implied between consecutive members.                         *)
(* JSON values are tagged records so that values of different JSON types   *)
(* can be compared.                                                        *)
(***************************************************************************)
EXTENDS Integers, Sequences, FiniteSets, TLC

(***************************************************************************)
(* Bounds                                                                  *)
(***************************************************************************)
\* largest max_iterations with which the loop is called (the default is 5)
MaxRounds == 5

(***************************************************************************)
(* JSON values                                                             *)
(***************************************************************************)
JNull == [type |-> "null"]
JBool(b) == [type |-> "bool", b |-> b]
JInt(n) == [type |-> "int", n |-> n]
JStr(s) == [type |-> "str", s |-> s]
\* a finite float of integral value, and float("inf")
JFloat(n) == [type |-> "float", n |-> n]
JInf == [type |-> "inf"]
JList(items) == [type |-> "list", items |-> items]
JObj(fields) == [type |-> "obj", fields |-> fields]

\* the empty dict
EmptyFields == [k \in {} |-> JNull]

WS == " "
\* the markdown fence marker, three backquotes
FENCE == "FENCE"
LANG == "json"

\* key tokens and the key each one spells
KeyName ==
    ("claims:" :> "claims") @@ ("claim_id:" :> "claim_id")
    @@ ("incident_date:" :> "incident_date")
    @@ ("incident_location:" :> "incident_location")
    @@ ("policyholder_name:" :> "policyholder_name")
    @@ ("damage:" :> "damage") @@ ("description:" :> "description")
    @@ ("estimated_repair_cost:" :> "estimated_repair_cost")
    @@ ("feedback:" :> "feedback") @@ ("issues:" :> "issues")
    @@ ("json_valid:" :> "json_valid")
    @@ ("overall_quality_score:" :> "overall_quality_score")
    @@ ("field:" :> "field") @@ ("issue:" :> "issue")
    @@ ("note:" :> "note")
    @@ ("assessments:" :> "assessments") @@ ("severity:" :> "severity")
    @@ ("estimated_cost:" :> "estimated_cost")
    @@ ("reasoning:" :> "reasoning")
    @@ ("routings:" :> "routings") @@ ("queue:" :> "queue")
    @@ ("priority:" :> "priority")

\* scalar literal tokens and the value each one denotes
ScalarValue ==
    ("null" :> JNull) @@ ("true" :> JBool(TRUE)) @@ ("false" :> JBool(FALSE))
    @@ ("-1" :> JInt(0 - 1)) @@ ("0" :> JInt(0)) @@ ("5" :> JInt(5))
    @@ ("7" :> JInt(7)) @@ ("9" :> JInt(9)) @@ ("10" :> JInt(10))
    @@ ("11" :> JInt(11))
    @@ ("''" :> JStr("")) @@ ("'C001'" :> JStr("C001"))
    @@ ("'C002'" :> JStr("C002")) @@ ("'2024-01-15'" :> JStr("2024-01-15"))
    @@ ("'highway'" :> JStr("highway")) @@ ("'John'" :> JStr("John"))
    @@ ("'chip'" :> JStr("chip")) @@ ("'dent'" :> JStr("dent"))
    @@ ("'10'" :> JStr("10")) @@ ("'no'" :> JStr("no"))
    @@ ("'text'" :> JStr("text"))
    @@ ("1" :> JInt(1)) @@ ("'Minor'" :> JStr("Minor"))
    @@ ("'major'" :> JStr("major")) @@ ("'glass'" :> JStr("glass"))
    @@ ("'Glass'" :> JStr("Glass"))
    @@ ("0.0" :> JFloat(0)) @@ ("5.0" :> JFloat(5)) @@ ("1e999" :> JInf)

(***************************************************************************)
(* Response sanitizer: str.strip, the three fence tests and the            *)
(* outermost-brace slice                                                   *)
(***************************************************************************)
RECURSIVE LStrip(_)
LStrip(t) == IF t # <<>> /\ Head(t) = WS THEN LStrip(Tail(t)) ELSE t

RECURSIVE RStrip(_)
RStrip(t) ==
    IF t # <<>> /\ t[Len(t)] = WS THEN RStrip(SubSeq(t, 1, Len(t) - 1)) ELSE t

Strip(t) == RStrip(LStrip(t))

\* text[n:]
DropFirst(t, n) == SubSeq(t, n + 1, Len(t))

\* text.startswith(fence + "json")
StartsWithFenceLang(t) == Len(t) >= 2 /\ t[1] = FENCE /\ t[2] = LANG
\* text.startswith(fence)
StartsWithFence(t) == Len(t) >= 1 /\ t[1] = FENCE
\* text.endswith(fence)
EndsWithFence(t) == Len(t) >= 1 /\ t[Len(t)] = FENCE

StripFences(t) ==
    LET a == Strip(t)
        b == IF StartsWithFenceLang(a) THEN DropFirst(a, 2) ELSE a
        c == IF StartsWithFence(b) THEN DropFirst(b, 1) ELSE b
        d == IF EndsWithFence(c) THEN SubSeq(c, 1, Len(c) - 1) ELSE c
    IN  Strip(d)

\* str.find / str.rfind of one token; 0 stands for Python's -1
Find(t, ch) ==
    IF \E i \in 1..Len(t) : t[i] = ch
    THEN CHOOSE i \in 1..Len(t) : t[i] = ch /\ \A j \in 1..(i - 1) : t[j] # ch
    ELSE 0

RFind(t, ch) ==
    IF \E i \in 1..Len(t) : t[i] = ch
    THEN CHOOSE i \in 1..Len(t) :
             t[i] = ch /\ \A j \in (i + 1)..Len(t) : t[j] # ch
    ELSE 0

\* the slice ends at the first closing brace
BraceSlice_FirstClose(t) ==
    LET first_brace == Find(t, "{")
        last_brace == Find(t, "}")
    IN  IF first_brace # 0 /\ last_brace # 0 /\ last_brace > first_brace
        THEN SubSeq(t, first_brace, last_brace)
        ELSE t

\* the slice is taken whenever both braces are found
BraceSlice_NoOrderTest(t) ==
    LET first_brace == Find(t, "{")
        last_brace == RFind(t, "}")
    IN  IF first_brace # 0 /\ last_brace # 0
        THEN SubSeq(t, first_brace, last_brace)
        ELSE t

BraceSlice(t) ==
    LET first_brace == Find(t, "{")
        last_brace == RFind(t, "}")
    IN  IF first_brace # 0 /\ last_brace # 0 /\ last_brace > first_brace
        THEN SubSeq(t, first_brace, last_brace)
        ELSE t

Sanitize(t) == BraceSlice(StripFences(t))

(***************************************************************************)
(* json.loads over token texts                                             *)
(***************************************************************************)
\* whitespace between JSON tokens is insignificant
RECURSIVE SkipWS(_)
SkipWS(t) ==
    IF t = <<>> THEN <<>>
    ELSE IF Head(t) = WS THEN SkipWS(Tail(t))
    ELSE <<Head(t)>> \o SkipWS(Tail(t))

ParseFail == [ok |-> FALSE, val |-> JNull, rest |-> <<>>]

RECURSIVE ParseValue(_), ParseMembers(_, _), ParseItems(_, _)
ParseValue(t) ==
    IF t = <<>> THEN ParseFail
    ELSE IF Head(t) \in DOMAIN ScalarValue
    THEN [ok |-> TRUE, val |-> ScalarValue[Head(t)], rest |-> Tail(t)]
    ELSE IF Head(t) = "{" THEN ParseMembers(Tail(t), EmptyFields)
    ELSE IF Head(t) = "[" THEN ParseItems(Tail(t), <<>>)
    ELSE ParseFail

\* members of an object; a repeated key keeps its last value
ParseMembers(t, acc) ==
    IF t = <<>> THEN ParseFail
    ELSE IF Head(t) = "}"
    THEN [ok |-> TRUE, val |-> JObj(acc), rest |-> Tail(t)]
    ELSE IF Head(t) \in DOMAIN KeyName
    THEN LET r == ParseValue(Tail(t))
         IN  IF r.ok
             THEN ParseMembers(r.rest, (KeyName[Head(t)] :> r.val) @@ acc)
             ELSE ParseFail
    ELSE ParseFail

ParseItems(t, acc) ==
    IF t = <<>> THEN ParseFail
    ELSE IF Head(t) = "]"
    THEN [ok |-> TRUE, val |-> JList(acc), rest |-> Tail(t)]
    ELSE LET r == ParseValue(t)
         IN  IF r.ok THEN ParseItems(r.rest, Append(acc, r.val)) ELSE ParseFail

\* ok = FALSE stands for json.JSONDecodeError (trailing data included)
json_loads(t) ==
    LET r == ParseValue(SkipWS(t))
    IN  IF r.ok /\ r.rest = <<>>
        THEN [ok |-> TRUE, val |-> r.val]
        ELSE [ok |-> FALSE, val |-> JNull]

(***************************************************************************)
(* Python value semantics used by the loop                                 *)
(***************************************************************************)
\* bool(v)
Truthy(v) ==
    CASE v.type = "null" -> FALSE
      [] v.type = "bool" -> v.b
      [] v.type = "int" -> v.n # 0
      [] v.type = "float" -> v.n # 0
      [] v.type = "inf" -> TRUE
      [] v.type = "str" -> v.s # ""
      [] v.type = "list" -> v.items # <<>>
      [] v.type = "obj" -> DOMAIN v.fields # {}

\* d.get(key, default) on a dict
DictGet(d, key, default) ==
    IF key \in DOMAIN d.fields THEN d.fields[key] ELSE default

(***************************************************************************)
(* pydantic models (src/src/models.py).  Of a claim the model keeps the    *)
(* identifier, the three required string fields and the damage descriptor  *)
(* with its description; unknown keys are ignored.                         *)
(***************************************************************************)
StrFields ==
    {"claim_id", "incident_date", "incident_location", "policyholder_name"}

\* an Optional[str] field accepts an absent key, null or a string
OptStrOk(v, key) ==
    key \notin DOMAIN v.fields \/ v.fields[key].type \in {"null", "str"}

\* strings that spell a number
NumericStrings == ("10" :> 10)

\* what a float field makes of an input; None stands for a rejected input.
\* ints, bools and numeric strings are converted, infinity is allowed
AsFloat(v) ==
    CASE v.type = "int" -> JFloat(v.n)
      [] v.type = "float" -> v
      [] v.type = "inf" -> v
      [] v.type = "bool" -> JFloat(IF v.b THEN 1 ELSE 0)
      [] v.type = "str" -> IF v.s \in DOMAIN NumericStrings
                           THEN JFloat(NumericStrings[v.s]) ELSE JNull
      [] OTHER -> JNull

\* an Optional[float] field with ge=0
OptCostOk(v, key) ==
    \/ key \notin DOMAIN v.fields
    \/ v.fields[key].type = "null"
    \/ LET f == AsFloat(v.fields[key])
       IN  f.type = "inf" \/ (f.type = "float" /\ f.n >= 0)

OptCost(v, key) ==
    IF DictGet(v, key, JNull).type = "null" THEN JNull
    ELSE AsFloat(v.fields[key])

\* description is optional
DamageInfoOk_OptionalDescription(v) ==
    /\ v.type = "obj"
    /\ OptStrOk(v, "description")
    /\ OptCostOk(v, "estimated_repair_cost")

\* DamageInfo(**v): description is a required str
DamageInfoOk(v) ==
    /\ v.type = "obj"
    /\ "description" \in DOMAIN v.fields
    /\ v.fields["description"].type = "str"
    /\ OptCostOk(v, "estimated_repair_cost")

DamageInfo(v) ==
    [type |-> "DamageInfo", description |-> DictGet(v, "description", JNull),
     estimated_repair_cost |-> OptCost(v, "estimated_repair_cost")]

\* damage: Optional[DamageInfo]
OptDamageOk(v) ==
    \/ "damage" \notin DOMAIN v.fields
    \/ v.fields["damage"].type = "null"
    \/ DamageInfoOk(v.fields["damage"])

FNOLInfoOk(v) ==
    /\ v.type = "obj"
    /\ \A key \in StrFields : OptStrOk(v, key)
    /\ OptDamageOk(v)

FNOLInfo(v) ==
    [claim_id |-> DictGet(v, "claim_id", JNull),
     incident_date |-> DictGet(v, "incident_date", JNull),
     incident_location |-> DictGet(v, "incident_location", JNull),
     policyholder_name |-> DictGet(v, "policyholder_name", JNull),
     damage |-> IF DictGet(v, "damage", JNull).type = "null"
                THEN JNull
                ELSE DamageInfo(v.fields["damage"])]

Batch(claims) == [type |-> "BatchFNOLInfo", claims |-> claims]

\* the claims key is required
BatchFNOLInfo_ClaimsRequired(data) ==
    IF data.type # "obj"
    THEN [ok |-> FALSE, err |-> "TypeError", batch |-> Batch(<<>>)]
    ELSE IF "claims" \notin DOMAIN data.fields
    THEN [ok |-> FALSE, err |-> "ValidationError", batch |-> Batch(<<>>)]
    ELSE LET c == data.fields["claims"]
         IN  IF c.type = "list"
                /\ \A i \in 1..Len(c.items) : FNOLInfoOk(c.items[i])
             THEN [ok |-> TRUE, err |-> "none",
                   batch |-> Batch([i \in 1..Len(c.items) |->
                                        FNOLInfo(c.items[i])])]
             ELSE [ok |-> FALSE, err |-> "ValidationError",
                   batch |-> Batch(<<>>)]

\* BatchFNOLInfo(**data): err is "none", "TypeError" (data is no mapping)
\* or "ValidationError"; claims defaults to the empty list
BatchFNOLInfo(data) ==
    IF data.type # "obj"
    THEN [ok |-> FALSE, err |-> "TypeError", batch |-> Batch(<<>>)]
    ELSE IF "claims" \notin DOMAIN data.fields
    THEN [ok |-> TRUE, err |-> "none", batch |-> Batch(<<>>)]
    ELSE LET c == data.fields["claims"]
         IN  IF c.type = "list"
                /\ \A i \in 1..Len(c.items) : FNOLInfoOk(c.items[i])
             THEN [ok |-> TRUE, err |-> "none",
                   batch |-> Batch([i \in 1..Len(c.items) |->
                                        FNOLInfo(c.items[i])])]
             ELSE [ok |-> FALSE, err |-> "ValidationError",
                   batch |-> Batch(<<>>)]

\* a response that fails to decode passes for an empty batch
DecodeBatch_Lenient(text) ==
    LET loaded == json_loads(text)
    IN  IF loaded.ok /\ BatchFNOLInfo(loaded.val).ok
        THEN BatchFNOLInfo(loaded.val)
        ELSE [ok |-> TRUE, err |-> "none", batch |-> Batch(<<>>)]

\* json.loads followed by BatchFNOLInfo(**data), as in the try block of the
\* refinement step
DecodeBatch(text) ==
    LET loaded == json_loads(text)
    IN  IF loaded.ok
        THEN BatchFNOLInfo(loaded.val)
        ELSE [ok |-> FALSE, err |-> "JSONDecodeError", batch |-> Batch(<<>>)]

\* SeverityAssessment(**v): severity is a required str, estimated_cost a
\* required number >= 0
SeverityAssessmentOk(v) ==
    /\ v.type = "obj"
    /\ OptStrOk(v, "claim_id")
    /\ OptStrOk(v, "reasoning")
    /\ "severity" \in DOMAIN v.fields
    /\ v.fields["severity"].type = "str"
    /\ "estimated_cost" \in DOMAIN v.fields
    /\ v.fields["estimated_cost"].type = "int"
    /\ v.fields["estimated_cost"].n >= 0

SeverityAssessment(v) ==
    [claim_id |-> DictGet(v, "claim_id", JNull),
     severity |-> DictGet(v, "severity", JNull),
     estimated_cost |-> DictGet(v, "estimated_cost", JNull)]

\* QueueRouting(**v): queue is a required str, priority a required int in 1..5
QueueRoutingOk(v) ==
    /\ v.type = "obj"
    /\ OptStrOk(v, "claim_id")
    /\ OptStrOk(v, "reasoning")
    /\ "queue" \in DOMAIN v.fields
    /\ v.fields["queue"].type = "str"
    /\ "priority" \in DOMAIN v.fields
    /\ v.fields["priority"].type = "int"
    /\ v.fields["priority"].n >= 1
    /\ v.fields["priority"].n <= 5

QueueRouting(v) ==
    [claim_id |-> DictGet(v, "claim_id", JNull),
     queue |-> DictGet(v, "queue", JNull),
     priority |-> DictGet(v, "priority", JNull)]

\* BatchSeverityAssessment(**data)
BatchSeverityAssessment(data) ==
    IF data.type # "obj"
    THEN [ok |-> FALSE, err |-> "TypeError", batch |-> <<>>]
    ELSE IF "assessments" \notin DOMAIN data.fields
    THEN [ok |-> TRUE, err |-> "none",
          batch |-> [type |-> "BatchSeverityAssessment", assessments |-> <<>>]]
    ELSE LET c == data.fields["assessments"]
         IN  IF c.type = "list"
                /\ \A i \in 1..Len(c.items) : SeverityAssessmentOk(c.items[i])
             THEN [ok |-> TRUE, err |-> "none",
                   batch |-> [type |-> "BatchSeverityAssessment",
                              assessments |->
                                  [i \in 1..Len(c.items) |->
                                       SeverityAssessment(c.items[i])]]]
             ELSE [ok |-> FALSE, err |-> "ValidationError", batch |-> <<>>]

\* BatchQueueRouting(**data)
BatchQueueRouting(data) ==
    IF data.type # "obj"
    THEN [ok |-> FALSE, err |-> "TypeError", batch |-> <<>>]
    ELSE IF "routings" \notin DOMAIN data.fields
    THEN [ok |-> TRUE, err |-> "none",
          batch |-> [type |-> "BatchQueueRouting", routings |-> <<>>]]
    ELSE LET c == data.fields["routings"]
         IN  IF c.type = "list"
                /\ \A i \in 1..Len(c.items) : QueueRoutingOk(c.items[i])
             THEN [ok |-> TRUE, err |-> "none",
                   batch |-> [type |-> "BatchQueueRouting",
                              routings |->
                                  [i \in 1..Len(c.items) |->
                                       QueueRouting(c.items[i])]]]
             ELSE [ok |-> FALSE, err |-> "ValidationError", batch |-> <<>>]

\* the try blocks of assess_claim_severity and route_claims_to_queues
DecodeAssessments(text) ==
    LET loaded == json_loads(text)
    IN  IF loaded.ok
        THEN BatchSeverityAssessment(loaded.val)
        ELSE [ok |-> FALSE, err |-> "JSONDecodeError", batch |-> <<>>]

DecodeRoutings(text) ==
    LET loaded == json_loads(text)
    IN  IF loaded.ok
        THEN BatchQueueRouting(loaded.val)
        ELSE [ok |-> FALSE, err |-> "JSONDecodeError", batch |-> <<>>]

(***************************************************************************)
(* The review of one critique response                                     *)
(***************************************************************************)
target_score == 10

\* a default that meets the target
DefaultScore_Target == JInt(10)

\* feedback_data.get('overall_quality_score', 0)
DefaultScore == JInt(0)
\* feedback_data.get('json_valid', True)
DefaultJsonValid == JBool(TRUE)

\* a fallback report that passes for a good one
FallbackFeedback_Passing ==
    [feedback_data |->
         JObj(("feedback" :> JStr("Unable to parse feedback"))
              @@ ("issues" :> JList(<<>>))
              @@ ("json_valid" :> JBool(TRUE))
              @@ ("overall_quality_score" :> JInt(10))),
     quality_score |-> JInt(10),
     json_valid |-> JBool(TRUE)]

\* the except json.JSONDecodeError branch
FallbackFeedback ==
    [feedback_data |->
         JObj(("feedback" :> JStr("Unable to parse feedback"))
              @@ ("issues" :> JList(<<>>))
              @@ ("json_valid" :> JBool(FALSE))
              @@ ("overall_quality_score" :> JInt(0))),
     quality_score |-> JInt(0),
     json_valid |-> JBool(FALSE)]

\* the exception raised while the issues are printed, "none" if none is:
\* len() of a number, slicing a dict, .get on an element that is no dict
IssuesError(issues) ==
    IF ~Truthy(issues) THEN "none"
    ELSE CASE issues.type \in {"int", "bool"} -> "TypeError"
           [] issues.type = "obj" -> "TypeError"
           [] issues.type = "str" -> "AttributeError"
           [] issues.type = "list" ->
                IF \E i \in 1..Len(issues.items) :
                       i <= 3 /\ issues.items[i].type # "obj"
                THEN "AttributeError"
                ELSE "none"

\* quality_score >= target_score raises TypeError unless the score is a number
ScoreComparable(quality_score) ==
    quality_score.type \in {"int", "bool", "float", "inf"}

\* infinity compares as a value above the target
ScoreAsInt(quality_score) ==
    IF quality_score.type \in {"int", "float"} THEN quality_score.n
    ELSE IF quality_score.type = "inf" THEN target_score + 1
    ELSE IF quality_score.b THEN 1 ELSE 0

\* the target has to be exceeded
TargetReached_Strict(quality_score, json_valid) ==
    ScoreAsInt(quality_score) > target_score /\ Truthy(json_valid)

\* json_valid is not consulted
TargetReached_ScoreOnly(quality_score, json_valid) ==
    ScoreAsInt(quality_score) >= target_score

\* a score outside 1..10 counts as 0
TargetReached_Clamped(quality_score, json_valid) ==
    /\ ScoreAsInt(quality_score) >= target_score
    /\ ScoreAsInt(quality_score) <= 10
    /\ Truthy(json_valid)

\* quality_score >= target_score and json_valid
TargetReached(quality_score, json_valid) ==
    ScoreAsInt(quality_score) >= target_score /\ Truthy(json_valid)

\* one more refinement after the last critique
Exhausted_Late(iter, max) == iter > max

\* the budget is never found spent after a critique
Exhausted_Never(iter, max) == FALSE

\* the budget is spent one round early
Exhausted_Early(iter, max) == iter + 1 >= max

\* iteration >= max_iterations
Exhausted(iter, max) == iter >= max

\* the try block of the critique step: decision is "converged", "continue"
\* or "raise" (an exception other than JSONDecodeError, which escapes);
\* assigned tells whether quality_score and json_valid were assigned
ReviewFeedback(text) ==
    LET loaded == json_loads(text)
    IN  IF ~loaded.ok
        THEN [decision |-> "continue", exception |-> "none",
              parsed |-> FALSE, assigned |-> TRUE] @@ FallbackFeedback
        ELSE IF loaded.val.type # "obj"
        THEN [decision |-> "raise", exception |-> "AttributeError",
              parsed |-> TRUE, assigned |-> FALSE,
              feedback_data |-> loaded.val,
              quality_score |-> JNull, json_valid |-> JNull]
        ELSE LET qs == DictGet(loaded.val, "overall_quality_score", DefaultScore)
                 jv == DictGet(loaded.val, "json_valid", DefaultJsonValid)
                 ie == IssuesError(DictGet(loaded.val, "issues", JNull))
                 exc == IF ie # "none" THEN ie
                        ELSE IF ~ScoreComparable(qs) THEN "TypeError"
                        ELSE "none"
             IN  [decision |-> IF exc # "none" THEN "raise"
                               ELSE IF TargetReached(qs, jv) THEN "converged"
                               ELSE "continue",
                  exception |-> exc, parsed |-> TRUE, assigned |-> TRUE,
                  feedback_data |-> loaded.val,
                  quality_score |-> qs, json_valid |-> jv]

\* a failed decode discards the batch
RefinedExtraction_DropOnFailure(current, decoded) ==
    IF decoded.ok THEN decoded.batch ELSE Batch(<<>>)

\* a field of the new claim that is null keeps the old claim's value
MergeField(old, new) == IF new.type = "null" THEN old ELSE new
MergeClaim(old, new) ==
    [claim_id |-> MergeField(old.claim_id, new.claim_id),
     incident_date |-> MergeField(old.incident_date, new.incident_date),
     incident_location |->
         MergeField(old.incident_location, new.incident_location),
     policyholder_name |->
         MergeField(old.policyholder_name, new.policyholder_name),
     damage |-> MergeField(old.damage, new.damage)]
RefinedExtraction_Merge(current, decoded) ==
    IF decoded.ok
    THEN Batch([i \in 1..Len(decoded.batch.claims) |->
                    IF i <= Len(current.claims)
                    THEN MergeClaim(current.claims[i], decoded.batch.claims[i])
                    ELSE decoded.batch.claims[i]])
    ELSE current

\* the try block of the refinement step: a decoded batch replaces the
\* current one, any failure keeps it
RefinedExtraction(current, decoded) ==
    IF decoded.ok THEN decoded.batch ELSE current

\* the critique shape the feedback prompt asks for: feedback is a string,
\* issues a list of objects, json_valid a boolean, overall_quality_score an
\* integer; any of them may be absent
Shaped(fd) ==
    /\ fd.type = "obj"
    /\ "feedback" \in DOMAIN fd.fields => fd.fields["feedback"].type = "str"
    /\ "issues" \in DOMAIN fd.fields =>
           /\ fd.fields["issues"].type = "list"
           /\ \A i \in 1..Len(fd.fields["issues"].items) :
                  fd.fields["issues"].items[i].type = "obj"
    /\ "json_valid" \in DOMAIN fd.fields =>
           fd.fields["json_valid"].type = "bool"
    /\ "overall_quality_score" \in DOMAIN fd.fields =>
           fd.fields["overall_quality_score"].type = "int"

\* a decoded critique of the prompt's shape that reports score 0
ZeroScoreReport(r) ==
    /\ r.parsed
    /\ Shaped(r.feedback_data)
    /\ "overall_quality_score" \in DOMAIN r.feedback_data.fields
    /\ r.feedback_data.fields["overall_quality_score"] = JInt(0)

(***************************************************************************)
(* Generator responses                                                     *)
(***************************************************************************)
Obj(members) == <<"{">> \o members \o <<"}">>
Fenced(t) == <<FENCE, LANG>> \o t \o <<FENCE>>

Score(tok) == <<"overall_quality_score:", tok>>
Valid(tok) == <<"json_valid:", tok>>
NoIssues == <<"issues:", "[", "]">>
OneIssue ==
    <<"issues:", "[", "{", "claim_id:", "'C001'", "field:", "'text'", "}", "]">>

\* critiques of the documented shape (fields may be absent)
ShapedCritiques ==
    { Obj(<<"feedback:", "'text'">> \o NoIssues \o Valid("true") \o Score("10")),
      Obj(<<"feedback:", "'text'">> \o OneIssue \o Valid("true") \o Score("7")),
      Obj(OneIssue \o Valid("false") \o Score("0")),
      Obj(Score("0")),
      Obj(NoIssues \o Valid("false") \o Score("10")),
      Obj(Valid("true")),
      Obj(Valid("false")),
      Obj(Score("10")),
      Obj(Score("9")),
      Obj(Valid("true") \o Score("11")),
      Obj(Valid("true") \o Score("-1")),
      Obj(<<>>),
      <<WS>> \o Fenced(Obj(Valid("true") \o Score("10"))) \o <<WS>>,
      <<"p", WS>> \o Obj(Valid("true") \o Score("7")) \o <<WS, "p">>,
      <<"[">> \o Obj(Score("10")) \o <<"]">> }

\* critiques json.loads rejects
MalformedCritiques ==
    { <<"p">>, <<>>, <<"{", "overall_quality_score:", "}">>,
      Obj(Score("10")) \o Obj(Score("10")),
      <<"}", "p", "{">> }

\* critiques that are JSON but not of the documented shape
MistypedCritiques ==
    { <<"[", "]">>, <<"null">>, <<"10">>,
      Obj(Score("'10'")), Obj(Score("null") \o Valid("true")),
      Obj(Score("true")),
      Obj(Score("10") \o Valid("'no'")), Obj(Score("10") \o Valid("null")),
      Obj(Score("10") \o <<"issues:", "5">>),
      Obj(Score("0") \o <<"issues:", "[", "'text'", "]">>),
      Obj(Score("10") \o Valid("true") \o <<"issues:", "'text'">>),
      Obj(Score("7") \o <<"issues:", "{", "field:", "'text'", "}">>) }

CritiqueTexts == ShapedCritiques \cup MalformedCritiques \cup MistypedCritiques

Claim1NoDate ==
    Obj(<<"claim_id:", "'C001'", "incident_date:", "null",
          "incident_location:", "'highway'", "policyholder_name:", "'John'",
          "damage:", "{", "description:", "'chip'", "}">>)
Claim1Dated ==
    Obj(<<"claim_id:", "'C001'", "incident_date:", "'2024-01-15'",
          "incident_location:", "'highway'", "policyholder_name:", "'John'",
          "damage:", "{", "description:", "'chip'", "}">>)
Claim2 == Obj(<<"claim_id:", "'C002'", "damage:", "null">>)

BatchText(claims) == Obj(<<"claims:", "[">> \o claims \o <<"]">>)

\* texts of the initial extraction that decoded
InitialTexts == { BatchText(Claim1NoDate), BatchText(Claim1NoDate \o Claim2) }

RefinementTexts ==
    { BatchText(Claim1Dated),
      BatchText(Claim1Dated \o Claim2),
      BatchText(Claim2 \o Claim1NoDate),
      <<"p", WS>> \o Fenced(BatchText(Claim1Dated)),
      Obj(<<"note:", "'text'">>),
      BatchText(<<>>),
      <<"p">>,
      <<"[", "]">>,
      Obj(<<"claims:", "null">>),
      BatchText(Obj(<<"claim_id:", "'C001'", "damage:", "{", "}">>)),
      BatchText(Obj(<<"claim_id:", "5">>)) }

InitialBatches == { DecodeBatch(Sanitize(t)).batch : t \in InitialTexts }

(***************************************************************************)
(* State of one run of _apply_feedback_loop                                *)
(***************************************************************************)
VARIABLES
    pc,                  \* "loop", "await_feedback", "await_refinement", "done"
    max_iterations,
    initial_extraction,
    current_extraction,
    iteration,
    feedback_response,   \* text of the last critique response
    feedback_data,
    quality_score,
    json_valid,
    refinement_response, \* text of the last refinement response
    request,             \* the last request sent to the generator
    feedback_calls,      \* generate_content calls made for a critique
    refinement_calls,    \* generate_content calls made for a refinement
    outcome,             \* "none", "converged", "exhausted", "loop_exit", "raised"
    exception,           \* class of the exception that left the loop
    result,              \* the returned batch
    last_refined,        \* batch of the last refinement that decoded
    only_zero_scores,    \* every critique so far reported score 0
    \* one call of a stage function or of a pure function
    fn,                  \* the function that was called
    fpc,                 \* "entry", "await_response", "in_loop", "returned", "raised"
    api_key,             \* os.environ.get("GOOGLE_API_KEY")
    enable_feedback_loop,
    client_created,      \* genai.Client(...) was constructed
    calls,               \* generate_content calls made by the stage itself
    response,            \* response.text of the stage's own call
    error,               \* the exception the called function raised
    batch_info,          \* the value the called function returned
    arg,                 \* argument of a pure function
    ret,                 \* value of a pure function
    \* one run of main
    invoked,             \* the stage functions main has called, in order
    severity_assessment  \* what assess_claim_severity returned to main

vars ==
    <<pc, max_iterations, initial_extraction, current_extraction, iteration,
      feedback_response, feedback_data, quality_score, json_valid,
      refinement_response, request, feedback_calls, refinement_calls,
      outcome, exception, result, last_refined, only_zero_scores,
      fn, fpc, api_key, enable_feedback_loop, client_created, calls, response,
      error, batch_info, arg, ret, invoked, severity_assessment>>

\* what a run of the loop leaves alone
call_vars ==
    <<fn, fpc, api_key, enable_feedback_loop, client_created, calls, response,
      error, batch_info, arg, ret, invoked, severity_assessment>>

NoError == [cls |-> "none", message |-> "none", response |-> <<>>, attached |-> FALSE]

NoResult == [type |-> "none"]
NoRequest == [kind |-> "none", round |-> 0, extraction |-> NoResult, feedback |-> JNull]

\* _apply_feedback_loop called on its own, with a client at hand
Init ==
    /\ fn = "_apply_feedback_loop"
    /\ fpc = "in_loop"
    /\ api_key = JStr("test-key")
    /\ enable_feedback_loop = TRUE
    /\ client_created = TRUE
    /\ calls = 0
    /\ response = <<>>
    /\ error = NoError
    /\ batch_info = NoResult
    /\ invoked = <<>>
    /\ severity_assessment = NoResult
    /\ arg = NoResult
    /\ ret = NoResult
    /\ pc = "loop"
    /\ max_iterations \in 0..MaxRounds
    /\ initial_extraction \in InitialBatches
    /\ current_extraction = initial_extraction
    /\ iteration = 0
    /\ feedback_response = <<>>
    /\ feedback_data = JNull
    /\ quality_score = JNull
    /\ json_valid = JNull
    /\ refinement_response = <<>>
    /\ request = NoRequest
    /\ feedback_calls = 0
    /\ refinement_calls = 0
    /\ outcome = "none"
    /\ exception = "none"
    /\ result = NoResult
    /\ last_refined = NoResult
    /\ only_zero_scores = TRUE

\* while iteration < max_iterations: the round starts and the critique
\* request is sent
CallFeedback ==
    /\ pc = "loop"
    /\ iteration < max_iterations
    /\ iteration' = iteration + 1
    /\ request' = [kind |-> "feedback", round |-> iteration + 1,
                   extraction |-> current_extraction, feedback |-> JNull]
    /\ feedback_calls' = feedback_calls + 1
    /\ pc' = "await_feedback"
    /\ UNCHANGED <<max_iterations, initial_extraction, current_extraction,
                   feedback_response, feedback_data, quality_score, json_valid,
                   refinement_response, refinement_calls, outcome, exception,
                   result, last_refined, only_zero_scores>>
    /\ UNCHANGED call_vars

\* the loop condition fails: return current_extraction after the loop
LoopExit ==
    /\ pc = "loop"
    /\ ~(iteration < max_iterations)
    /\ pc' = "done"
    /\ outcome' = "loop_exit"
    /\ result' = current_extraction
    /\ UNCHANGED <<max_iterations, initial_extraction, current_extraction,
                   iteration, feedback_response, feedback_data, quality_score,
                   json_valid, refinement_response, request, feedback_calls,
                   refinement_calls, exception, last_refined, only_zero_scores>>
    /\ UNCHANGED call_vars

\* the critique response arrives: sanitize, review, decide, and send the
\* refinement request unless the run ends
FeedbackResponse(text) ==
    /\ pc = "await_feedback"
    /\ \E r \in {ReviewFeedback(Sanitize(text))} :
           /\ feedback_response' = text
           /\ feedback_data' = r.feedback_data
           /\ quality_score' = IF r.assigned THEN r.quality_score ELSE quality_score
           /\ json_valid' = IF r.assigned THEN r.json_valid ELSE json_valid
           /\ only_zero_scores' =
                  (only_zero_scores /\ ZeroScoreReport(r))
           /\ IF r.decision = "raise"
              THEN /\ pc' = "done"
                   /\ outcome' = "raised"
                   /\ exception' = r.exception
                   /\ UNCHANGED <<result, request, refinement_calls>>
              ELSE IF r.decision = "converged"
              THEN /\ pc' = "done"
                   /\ outcome' = "converged"
                   /\ result' = current_extraction
                   /\ UNCHANGED <<exception, request, refinement_calls>>
              ELSE IF Exhausted(iteration, max_iterations)
              THEN /\ pc' = "done"
                   /\ outcome' = "exhausted"
                   /\ result' = current_extraction
                   /\ UNCHANGED <<exception, request, refinement_calls>>
              ELSE /\ pc' = "await_refinement"
                   /\ request' = [kind |-> "refinement", round |-> iteration,
                                  extraction |-> current_extraction,
                                  feedback |-> r.feedback_data]
                   /\ refinement_calls' = refinement_calls + 1
                   /\ UNCHANGED <<outcome, exception, result>>
    /\ UNCHANGED <<max_iterations, initial_extraction, current_extraction,
                   iteration, refinement_response, feedback_calls, last_refined>>
    /\ UNCHANGED call_vars

\* the refinement response arrives: sanitize, decode, replace or keep
RefinementResponse(text) ==
    /\ pc = "await_refinement"
    /\ \E decoded \in {DecodeBatch(Sanitize(text))} :
           /\ refinement_response' = text
           /\ current_extraction' = RefinedExtraction(current_extraction, decoded)
           /\ last_refined' = IF decoded.ok THEN decoded.batch ELSE last_refined
    /\ pc' = "loop"
    /\ UNCHANGED <<max_iterations, initial_extraction, iteration,
                   feedback_response, feedback_data, quality_score, json_valid,
                   request, feedback_calls, refinement_calls, outcome,
                   exception, result, only_zero_scores>>
    /\ UNCHANGED call_vars

\* the failed call is made again
GeneratorFails_Retry ==
    /\ pc \in {"await_feedback", "await_refinement"}
    /\ feedback_calls + refinement_calls < 2 * MaxRounds + 2
    /\ exception' = "GeneratorError"
    /\ feedback_calls' =
           IF pc = "await_feedback" THEN feedback_calls + 1 ELSE feedback_calls
    /\ refinement_calls' =
           IF pc = "await_refinement" THEN refinement_calls + 1
           ELSE refinement_calls
    /\ UNCHANGED <<pc, outcome, max_iterations, initial_extraction,
                   current_extraction, iteration, feedback_response,
                   feedback_data, quality_score, json_valid,
                   refinement_response, request, result, last_refined,
                   only_zero_scores>>
    /\ UNCHANGED call_vars

\* generate_content raises: nothing in the loop catches it
GeneratorFails ==
    /\ pc \in {"await_feedback", "await_refinement"}
    /\ pc' = "done"
    /\ outcome' = "raised"
    /\ exception' = "GeneratorError"
    /\ UNCHANGED <<max_iterations, initial_extraction, current_extraction,
                   iteration, feedback_response, feedback_data, quality_score,
                   json_valid, refinement_response, request, feedback_calls,
                   refinement_calls, result, last_refined, only_zero_scores>>
    /\ UNCHANGED call_vars

Next ==
    \/ CallFeedback
    \/ LoopExit
    \/ \E text \in CritiqueTexts : FeedbackResponse(text)
    \/ \E text \in RefinementTexts : RefinementResponse(text)
    \/ GeneratorFails

Spec == Init /\ [][Next]_vars

(***************************************************************************)
(* One call of a stage function: extract_fnol_information_batch,           *)
(* assess_claim_severity or route_claims_to_queues                         *)
(***************************************************************************)
\* default of the max_iterations parameter
DefaultMaxIterations == 5

StageFunctions ==
    {"extract_fnol_information_batch", "assess_claim_severity",
     "route_claims_to_queues"}

\* values of the environment variable: unset, empty, set
ApiKeys == {JNull, JStr(""), JStr("test-key")}

\* only an unset variable counts as missing
ApiKeyMissing_NoneOnly(key) == key.type = "null"

\* if not api_key
ApiKeyMissing(key) == ~Truthy(key)

\* the loop runs whatever the flag says
RunFeedbackLoop_Always(flag) == TRUE

\* if enable_feedback_loop
RunFeedbackLoop(flag) == flag

ConfigError ==
    [cls |-> "ValueError",
     message |-> "GOOGLE_API_KEY environment variable is not set",
     response |-> <<>>, attached |-> FALSE]

\* except json.JSONDecodeError: the message ends with response.text
ParseError(text) ==
    [cls |-> "ValueError", message |-> "Failed to parse LLM response as JSON",
     response |-> text, attached |-> TRUE]

\* except Exception: the message holds the exception only
CreateError ==
    [cls |-> "ValueError", message |-> "Failed to create object",
     response |-> <<>>, attached |-> FALSE]

\* generate_content raised outside any try block
GeneratorError ==
    [cls |-> "GeneratorError", message |-> "generate_content failed",
     response |-> <<>>, attached |-> FALSE]

\* the error the two except clauses of a stage make of a failed decode
DecodeError(decoded, text) ==
    IF decoded.err = "JSONDecodeError" THEN ParseError(text) ELSE CreateError

\* responses to the extraction request that do not decode as a batch
UndecodableInitialTexts ==
    { <<"p">>, <<WS>>, <<"[", "]">>, Obj(<<"claims:", "null">>),
      <<"{", "claims:", "[">>,
      BatchText(Obj(<<"claim_id:", "'C001'", "damage:", "{", "}">>)),
      BatchText(Obj(<<"claim_id:", "5">>)) }

InitialResponseTexts ==
    InitialTexts
    \cup { <<WS>> \o Fenced(BatchText(Claim1NoDate)), Obj(<<"note:", "'text'">>) }
    \cup UndecodableInitialTexts

Assessment1 ==
    Obj(<<"claim_id:", "'C001'", "severity:", "'Minor'", "estimated_cost:", "5">>)
Assessment2 ==
    Obj(<<"claim_id:", "'C002'", "severity:", "'major'", "estimated_cost:", "0">>)

AssessmentTexts ==
    { Obj(<<"assessments:", "[">> \o Assessment1 \o <<"]">>),
      Obj(<<"assessments:", "[">> \o Assessment1 \o Assessment2 \o <<"]">>),
      Fenced(Obj(<<"assessments:", "[", "]">>)),
      Obj(<<>>),
      <<"p">>,
      <<"[", "]">>,
      Obj(<<"assessments:", "[", "{", "severity:", "'Minor'", "}", "]">>),
      Obj(<<"assessments:", "[", "{", "severity:", "'Minor'",
            "estimated_cost:", "-1", "}", "]">>) }

Routing1 == Obj(<<"claim_id:", "'C001'", "queue:", "'glass'", "priority:", "1">>)
Routing2 == Obj(<<"claim_id:", "'C002'", "queue:", "'Glass'", "priority:", "5">>)

RoutingTexts ==
    { Obj(<<"routings:", "[">> \o Routing1 \o <<"]">>),
      Obj(<<"routings:", "[">> \o Routing1 \o Routing2 \o <<"]">>),
      Obj(<<>>),
      <<"p">>,
      <<"null">>,
      Obj(<<"routings:", "[", "{", "queue:", "'glass'", "priority:", "7",
            "}", "]">>),
      Obj(<<"routings:", "[", "{", "priority:", "1", "}", "]">>) }

\* a stage function has just been called
StageInit ==
    /\ fn \in StageFunctions
    /\ fpc = "entry"
    /\ api_key \in ApiKeys
    /\ enable_feedback_loop \in
           IF fn = "extract_fnol_information_batch" THEN BOOLEAN ELSE {FALSE}
    /\ client_created = FALSE
    /\ calls = 0
    /\ response = <<>>
    /\ error = NoError
    /\ batch_info = NoResult
    /\ invoked = <<>>
    /\ severity_assessment = NoResult
    /\ arg \in IF fn = "extract_fnol_information_batch" THEN {NoResult}
                ELSE InitialBatches
    /\ ret = NoResult
    /\ pc = "idle"
    /\ max_iterations = DefaultMaxIterations
    /\ initial_extraction = NoResult
    /\ current_extraction = NoResult
    /\ iteration = 0
    /\ feedback_response = <<>>
    /\ feedback_data = JNull
    /\ quality_score = JNull
    /\ json_valid = JNull
    /\ refinement_response = <<>>
    /\ request = NoRequest
    /\ feedback_calls = 0
    /\ refinement_calls = 0
    /\ outcome = "none"
    /\ exception = "none"
    /\ result = NoResult
    /\ last_refined = NoResult
    /\ only_zero_scores = TRUE

loop_vars ==
    <<pc, max_iterations, initial_extraction, current_extraction, iteration,
      feedback_response, feedback_data, quality_score, json_valid,
      refinement_response, feedback_calls, refinement_calls, outcome,
      exception, result, last_refined, only_zero_scores>>

\* the credential check; with a key, the client is made, the prompt built
\* and generate_content called
StageEntry ==
    /\ fpc = "entry"
    /\ IF ApiKeyMissing(api_key)
       THEN /\ fpc' = "raised"
            /\ error' = ConfigError
            /\ UNCHANGED <<client_created, calls, request>>
       ELSE /\ client_created' = TRUE
            /\ calls' = calls + 1
            /\ request' = [kind |-> fn, round |-> 0, extraction |-> arg,
                           feedback |-> JNull]
            /\ fpc' = "await_response"
            /\ UNCHANGED error
    /\ UNCHANGED <<fn, invoked, severity_assessment, api_key, enable_feedback_loop, response, batch_info,
                   arg, ret>>
    /\ UNCHANGED loop_vars

\* the stage's own generate_content call raises, outside the try block
StageGeneratorFails ==
    /\ fpc = "await_response"
    /\ fpc' = "raised"
    /\ error' = GeneratorError
    /\ UNCHANGED <<fn, invoked, severity_assessment, api_key, enable_feedback_loop, client_created, calls,
                   response, batch_info, arg, ret, request>>
    /\ UNCHANGED loop_vars

\* the extraction response arrives: sanitize, decode, then return the batch
\* or enter the feedback loop with it
ExtractResponse(text) ==
    /\ fn = "extract_fnol_information_batch"
    /\ fpc = "await_response"
    /\ response' = text
    /\ \E decoded \in {DecodeBatch(Sanitize(text))} :
           IF ~decoded.ok
           THEN /\ fpc' = "raised"
                /\ error' = DecodeError(decoded, text)
                /\ UNCHANGED <<batch_info, pc, initial_extraction,
                               current_extraction>>
           ELSE IF RunFeedbackLoop(enable_feedback_loop)
           THEN /\ fpc' = "in_loop"
                /\ pc' = "loop"
                /\ initial_extraction' = decoded.batch
                /\ current_extraction' = decoded.batch
                /\ UNCHANGED <<batch_info, error>>
           ELSE /\ fpc' = "returned"
                /\ batch_info' = decoded.batch
                /\ UNCHANGED <<error, pc, initial_extraction,
                               current_extraction>>
    /\ UNCHANGED <<fn, invoked, severity_assessment, api_key, enable_feedback_loop, client_created, calls,
                   arg, ret, request>>
    /\ UNCHANGED <<max_iterations, iteration, feedback_response,
                   feedback_data, quality_score, json_valid,
                   refinement_response, feedback_calls, refinement_calls,
                   outcome, exception, result, last_refined, only_zero_scores>>

\* the loop is over: its batch is returned, or the exception that left it
\* is caught by except Exception and raised again as a ValueError
LoopReturn ==
    /\ fn = "extract_fnol_information_batch"
    /\ fpc = "in_loop"
    /\ pc = "done"
    /\ IF outcome = "raised"
       THEN /\ fpc' = "raised"
            /\ error' = CreateError
            /\ UNCHANGED batch_info
       ELSE /\ fpc' = "returned"
            /\ batch_info' = result
            /\ UNCHANGED error
    /\ UNCHANGED <<fn, invoked, severity_assessment, api_key, enable_feedback_loop, client_created, calls,
                   response, arg, ret, request>>
    /\ UNCHANGED loop_vars

\* the severity response arrives: sanitize, decode, return or raise
AssessResponse(text) ==
    /\ fn = "assess_claim_severity"
    /\ fpc = "await_response"
    /\ response' = text
    /\ \E decoded \in {DecodeAssessments(Sanitize(text))} :
           IF decoded.ok
           THEN /\ fpc' = "returned"
                /\ batch_info' = decoded.batch
                /\ UNCHANGED error
           ELSE /\ fpc' = "raised"
                /\ error' = DecodeError(decoded, text)
                /\ UNCHANGED batch_info
    /\ UNCHANGED <<fn, invoked, severity_assessment, api_key, enable_feedback_loop, client_created, calls,
                   arg, ret, request>>
    /\ UNCHANGED loop_vars

\* the routing response arrives: sanitize, decode, return or raise
RouteResponse(text) ==
    /\ fn = "route_claims_to_queues"
    /\ fpc = "await_response"
    /\ response' = text
    /\ \E decoded \in {DecodeRoutings(Sanitize(text))} :
           IF decoded.ok
           THEN /\ fpc' = "returned"
                /\ batch_info' = decoded.batch
                /\ UNCHANGED error
           ELSE /\ fpc' = "raised"
                /\ error' = DecodeError(decoded, text)
                /\ UNCHANGED batch_info
    /\ UNCHANGED <<fn, invoked, severity_assessment, api_key, enable_feedback_loop, client_created, calls,
                   arg, ret, request>>
    /\ UNCHANGED loop_vars

\* the loop is entered with the default max_iterations, so that its while
\* condition holds whenever it is tested and LoopExit has no part here
StageNext ==
    \/ StageEntry
    \/ StageGeneratorFails
    \/ \E text \in InitialResponseTexts : ExtractResponse(text)
    \/ CallFeedback
    \/ \E text \in CritiqueTexts : FeedbackResponse(text)
    \/ \E text \in RefinementTexts : RefinementResponse(text)
    \/ GeneratorFails
    \/ LoopReturn
    \/ \E text \in AssessmentTexts : AssessResponse(text)
    \/ \E text \in RoutingTexts : RouteResponse(text)

StageSpec == StageInit /\ [][StageNext]_vars

(***************************************************************************)
(* Properties                                                              *)
(***************************************************************************)
Returned == outcome \in {"converged", "exhausted", "loop_exit"}

\* the critique of round `iteration` was answered and has been reviewed, so
\* that feedback_response, feedback_data, quality_score and json_valid are
\* those of this round
Reviewed ==
    /\ feedback_calls >= 1
    /\ pc # "await_feedback"
    /\ ~(exception = "GeneratorError" /\ request.kind = "feedback")

\* json.loads accepted the critique of this round
FeedbackParsed == json_loads(Sanitize(feedback_response)).ok

\* the refinement of the last round that had one failed to decode
RefinementFailed == ~DecodeBatch(Sanitize(refinement_response)).ok

\* the current batch as whole-batch substitution defines it
LastGoodBatch ==
    IF last_refined = NoResult THEN initial_extraction ELSE last_refined

\* the number of steps a run can still take
StepsLeft ==
    CASE pc = "done" -> 0
      [] pc = "loop" -> 3 * (max_iterations - iteration) + 1
      [] pc = "await_refinement" -> 3 * (max_iterations - iteration) + 2
      [] pc = "await_feedback" -> 3 * (max_iterations - iteration) + 3

\* C1: for every max_iterations >= 1 and whatever the generator answers, a
\* run makes at most max_iterations critique calls and at most
\* max_iterations - 1 refinement calls, at most 2 * max_iterations - 1 in
\* all, and the run ends: a run that is not over either waits for the
\* generator or can take a step of its own, and every step lowers the
\* number of steps left, which is never negative.
C1_BoundedCallsThenStops ==
    /\ [](max_iterations >= 1 =>
            /\ feedback_calls <= max_iterations
            /\ refinement_calls <= max_iterations - 1
            /\ feedback_calls + refinement_calls <= 2 * max_iterations - 1)
    /\ [](/\ StepsLeft >= 0
          /\ pc \in {"loop", "await_feedback", "await_refinement", "done"}
          /\ pc = "loop" => ENABLED (CallFeedback \/ LoopExit))
    /\ [][StepsLeft' < StepsLeft]_vars

C1_Witness ==
    /\ pc = "done"
    /\ max_iterations >= 2
    /\ feedback_calls = max_iterations
    /\ refinement_calls = max_iterations - 1

\* C2: whatever text the generator returns to a critique or refinement
\* request, the run returns a batch and no error escapes the loop (a
\* failure of the generator call itself is not a text).
C2_LoopIsTotal ==
    (pc = "done" /\ exception # "GeneratorError") =>
        /\ outcome # "raised"
        /\ exception = "none"
        /\ result.type = "BatchFNOLInfo"

\* C3: once a critique of the prompt's shape reports a score >= 10 with
\* json_valid true in round k, the run is over: k critique calls and k - 1
\* refinement calls were made, no step follows, and the batch returned is
\* the one that critique was asked about (the initial batch when k = 1).
C3_ConvergenceStopsAtOnce ==
    ( /\ Reviewed
      /\ FeedbackParsed
      /\ Shaped(feedback_data)
      /\ "overall_quality_score" \in DOMAIN feedback_data.fields
      /\ feedback_data.fields["overall_quality_score"].n >= 10
      /\ "json_valid" \in DOMAIN feedback_data.fields
      /\ feedback_data.fields["json_valid"].b ) =>
        /\ pc = "done"
        /\ outcome = "converged"
        /\ feedback_calls = iteration
        /\ refinement_calls = iteration - 1
        /\ request.kind = "feedback"
        /\ request.round = iteration
        /\ result = request.extraction
        /\ result = current_extraction
        /\ iteration = 1 => result = initial_extraction
        /\ ~ENABLED Next

C3_Witness ==
    /\ outcome = "converged"
    /\ iteration = 2
    /\ feedback_calls + refinement_calls = 3
    /\ feedback_data.fields["overall_quality_score"] = JInt(10)
    /\ "json_valid" \in DOMAIN feedback_data.fields
    /\ Len(initial_extraction.claims) = 1
    /\ initial_extraction.claims[1].incident_date = JNull
    /\ Len(result.claims) = 1
    /\ result.claims[1].incident_date = JStr("2024-01-15")

\* C4: when every critique reports score 0 the run makes exactly
\* max_iterations critique calls and max_iterations - 1 refinement calls
\* and returns the batch of the last refinement that decoded, or the
\* initial batch if none did.
C4_ExhaustionBound ==
    ( /\ pc = "done"
      /\ max_iterations >= 1
      /\ only_zero_scores
      /\ exception # "GeneratorError" ) =>
        /\ outcome = "exhausted"
        /\ feedback_calls = max_iterations
        /\ refinement_calls = max_iterations - 1
        /\ result = LastGoodBatch

C4_Witness ==
    /\ pc = "done"
    /\ only_zero_scores
    /\ outcome = "exhausted"
    /\ max_iterations >= 3
    /\ last_refined # NoResult
    /\ RefinementFailed
    /\ result = last_refined
    /\ result # initial_extraction

\* C5: a refinement response that does not decode as a batch leaves the
\* current batch as it was, the run goes on, and the critique of the next
\* round is asked about that same batch.
C5_FailedRefinementKeepsBatch ==
    [][ /\ ( /\ pc = "await_refinement"
             /\ pc' = "loop"
             /\ ~DecodeBatch(Sanitize(refinement_response')).ok ) =>
               /\ current_extraction' = current_extraction
               /\ current_extraction' = request.extraction
               /\ outcome' = "none"
               /\ iteration' < max_iterations'
        /\ ( /\ pc = "loop"
             /\ iteration >= 1
             /\ RefinementFailed ) =>
               /\ pc' = "await_feedback"
               /\ request'.kind = "feedback"
               /\ request'.round = iteration + 1
               /\ request'.extraction = request.extraction ]_vars

C5_Witness ==
    /\ pc = "await_feedback"
    /\ iteration = 3
    /\ RefinementFailed
    /\ last_refined # NoResult
    /\ last_refined # initial_extraction
    /\ request.extraction = last_refined

\* C6: the current batch is always the initial batch (no refinement decoded
\* yet) or the whole batch of the last refinement that decoded, and the
\* batch a run returns is the current batch.
C6_WholeBatchSubstitution ==
    /\ current_extraction = LastGoodBatch
    /\ Returned => result = current_extraction
    /\ ~Returned => result = NoResult

C6_Witness ==
    /\ outcome = "exhausted"
    /\ last_refined # NoResult
    /\ Len(last_refined.claims) = 2
    /\ last_refined.claims[2].incident_date = JNull
    /\ initial_extraction.claims[1].claim_id # last_refined.claims[1].claim_id
    /\ result = last_refined

\* C7: a run converges only on a critique whose score is at least 10 and
\* whose json_valid is true; a critique of the prompt's shape with such a
\* score and json_valid false does not converge: the refinement request of
\* the round is sent, or in the last round the run ends exhausted.
C7_BothConditionsNeeded ==
    /\ (outcome = "converged" /\ Shaped(feedback_data)) =>
           /\ quality_score.type = "int"
           /\ quality_score.n >= target_score
           /\ json_valid = JBool(TRUE)
    /\ ( /\ Reviewed
         /\ FeedbackParsed
         /\ Shaped(feedback_data)
         /\ quality_score.n >= target_score
         /\ json_valid = JBool(FALSE) ) =>
           /\ outcome # "converged"
           /\ iteration < max_iterations =>
                  /\ request.kind = "refinement"
                  /\ request.round = iteration
                  /\ request.feedback = feedback_data
           /\ iteration >= max_iterations =>
                  /\ pc = "done"
                  /\ outcome = "exhausted"

C7_Witness ==
    /\ pc = "await_refinement"
    /\ Shaped(feedback_data)
    /\ quality_score = JInt(10)
    /\ json_valid = JBool(FALSE)

\* C8: a critique response json.loads rejects counts as a report with
\* score 0 and json_valid false; the run is not aborted and the round does
\* not converge: the refinement request is sent with the placeholder
\* report, or in the last round the run ends exhausted with the current
\* batch.
C8_UndecodableCritique ==
    (Reviewed /\ ~FeedbackParsed) =>
        /\ quality_score = JInt(0)
        /\ json_valid = JBool(FALSE)
        /\ outcome # "converged"
        /\ exception \in {"none", "GeneratorError"}
        /\ iteration < max_iterations =>
               /\ request.kind = "refinement"
               /\ request.round = iteration
               /\ request.feedback.fields["overall_quality_score"] = JInt(0)
               /\ request.feedback.fields["json_valid"] = JBool(FALSE)
               /\ request.feedback.fields["issues"] = JList(<<>>)
        /\ iteration >= max_iterations =>
               /\ pc = "done"
               /\ outcome = "exhausted"
               /\ result = current_extraction

C8_Witness ==
    /\ pc = "await_refinement"
    /\ ~FeedbackParsed
    /\ feedback_response # <<>>
    /\ request.feedback.fields["json_valid"] = JBool(FALSE)

\* C9: in a decoded critique object a missing overall_quality_score counts
\* as 0, so the round does not converge whatever json_valid is, and a
\* missing json_valid counts as true, so a round with score >= 10 and no
\* json_valid converges.
C9_MissingFieldDefaults ==
    (Reviewed /\ FeedbackParsed /\ Shaped(feedback_data)) =>
        /\ "overall_quality_score" \notin DOMAIN feedback_data.fields =>
               /\ quality_score = JInt(0)
               /\ outcome # "converged"
        /\ "json_valid" \notin DOMAIN feedback_data.fields =>
               /\ json_valid = JBool(TRUE)
               /\ quality_score.n >= 10 => outcome = "converged"

C9_Witness ==
    /\ outcome = "converged"
    /\ FeedbackParsed
    /\ "json_valid" \notin DOMAIN feedback_data.fields
    /\ quality_score = JInt(10)

Extracting == fn = "extract_fnol_information_batch"

\* the stage's response has arrived and the function is past decoding it
Decoded == calls = 1 /\ fpc \in {"in_loop", "returned", "raised"}
              /\ error.cls # "GeneratorError"

LoopCalls == feedback_calls + refinement_calls

\* C11: with the feedback loop disabled, extract_fnol_information_batch
\* invokes the generator exactly once and returns the batch decoded from
\* that response; critique and refinement requests are issued only when
\* enable_feedback_loop is true.
C11_LoopOnlyWhenEnabled ==
    Extracting =>
        /\ LoopCalls > 0 => enable_feedback_loop
        /\ ~enable_feedback_loop =>
               /\ pc = "idle"
               /\ calls <= 1
               /\ fpc = "returned" =>
                      /\ calls = 1
                      /\ DecodeBatch(Sanitize(response)).ok
                      /\ batch_info = DecodeBatch(Sanitize(response)).batch

C11_Witness ==
    /\ Extracting
    /\ ~enable_feedback_loop
    /\ fpc = "returned"
    /\ calls = 1
    /\ LoopCalls = 0
    /\ batch_info.type = "BatchFNOLInfo"
    /\ Len(batch_info.claims) = 2

\* C12: when the response to the initial extraction request fails to decode
\* (invalid JSON or a schema violation), extract_fnol_information_batch
\* raises, returns no batch and makes no critique or refinement invocation,
\* with the feedback loop enabled or not.
C12_InitialDecodeFailureIsFatal ==
    (Extracting /\ Decoded /\ response \in UndecodableInitialTexts) =>
        /\ fpc = "raised"
        /\ error.cls = "ValueError"
        /\ batch_info = NoResult
        /\ pc = "idle"
        /\ LoopCalls = 0
        /\ calls = 1

C12_Witness ==
    /\ Extracting
    /\ enable_feedback_loop
    /\ response = Obj(<<"claims:", "null">>)
    /\ fpc = "raised"
    /\ batch_info = NoResult
    /\ LoopCalls = 0

\* a stage raised because its response did not decode
DecodeFailed ==
    /\ fpc = "raised"
    /\ pc = "idle"
    /\ error.message \in {ParseError(<<>>).message, CreateError.message}

\* C13: a schema failure is reported as an error distinct from a syntax
\* failure, and in both cases the error carries the original raw response
\* text.
C13_DecodeErrorsCarryRawText ==
    DecodeFailed =>
        /\ error.attached
        /\ error.response = response
        /\ (error.message = ParseError(<<>>).message)
              <=> (json_loads(Sanitize(response)).ok = FALSE)

\* C14: with GOOGLE_API_KEY absent or empty, each stage function raises a
\* configuration error before creating the client and before any generator
\* invocation.
C14_MissingKeyRaisesBeforeAnyCall ==
    api_key \in {JNull, JStr("")} =>
        /\ fpc \in {"entry", "raised"}
        /\ fpc = "entry" => ENABLED StageEntry
        /\ fpc = "raised" => error = ConfigError
        /\ ~client_created
        /\ calls = 0
        /\ LoopCalls = 0
        /\ batch_info = NoResult

C14_Witness ==
    /\ fn = "route_claims_to_queues"
    /\ api_key = JStr("")
    /\ fpc = "raised"
    /\ error = ConfigError
    /\ ~client_created
    /\ calls = 0

\* C15: when generate_content raises during a critique or refinement
\* invocation, the call is not made again, no further generator invocation
\* follows, and the error leaves the loop and the stage, which returns no
\* batch.
C15_GeneratorFailureIsFatal ==
    [][ /\ exception' = "GeneratorError" =>
             /\ pc' = "done"
             /\ outcome' = "raised"
             /\ result' = NoResult
             /\ batch_info' = NoResult
             /\ fpc' \in {"in_loop", "raised"}
             /\ fpc' = "raised" => error'.cls = "ValueError"
        /\ exception = "GeneratorError" =>
             /\ calls' = calls
             /\ feedback_calls' = feedback_calls
             /\ refinement_calls' = refinement_calls
             /\ current_extraction' = current_extraction ]_vars

C15_Witness ==
    /\ exception = "GeneratorError"
    /\ refinement_calls >= 1
    /\ fpc = "raised"
    /\ batch_info = NoResult

\* claims whose identifiers both batches hold stand in the same order
SameOrder(before, after) ==
    \A i, j \in 1..Len(after.claims) :
        \A k, l \in 1..Len(before.claims) :
            (/\ i < j
             /\ after.claims[i].claim_id = before.claims[k].claim_id
             /\ after.claims[j].claim_id = before.claims[l].claim_id)
                => k <= l

\* C18: the order of the claims is preserved through every refinement
\* round: after any number of successful refinements the claims of the
\* current batch are in the same order, by identifier, as in the initial
\* batch.
C18_ClaimOrderPreserved ==
    SameOrder(initial_extraction, current_extraction)

\* every damage descriptor of the batch carries a description
DamageDescribed(batch) ==
    batch.type = "BatchFNOLInfo" =>
        \A i \in 1..Len(batch.claims) :
            batch.claims[i].damage # JNull =>
                batch.claims[i].damage.description.type = "str"

BareDamageText ==
    BatchText(Obj(<<"claim_id:", "'C001'", "damage:", "{", "}">>))

\* C19: in every state of a run every claim of the current batch that has a
\* damage descriptor has a description; a refinement response holding a
\* damage object without a description fails to decode and leaves the
\* batch unchanged.
C19_DamageAlwaysDescribed ==
    [][ /\ DamageDescribed(initial_extraction')
        /\ DamageDescribed(current_extraction')
        /\ DamageDescribed(result')
        /\ Extracting => DamageDescribed(batch_info')
        /\ (pc = "await_refinement" /\ pc' # "await_refinement"
               /\ refinement_response' = BareDamageText) =>
             /\ current_extraction' = current_extraction
             /\ last_refined' = last_refined ]_vars

C19_Witness ==
    /\ refinement_response = BareDamageText
    /\ iteration >= 1
    /\ current_extraction = initial_extraction
    /\ \E i \in 1..Len(current_extraction.claims) :
           current_extraction.claims[i].damage # JNull

(***************************************************************************)
(* The validators of models.py: FNOLInfo.validate_required_fields and      *)
(* BatchFNOLInfo.validate_all                                              *)
(***************************************************************************)
MaxClaims == 2

\* a field counts as missing only when it is None
validate_required_fields_NoneOnly(claim) ==
    LET m1 == IF claim.incident_date = JNull
              THEN <<"incident_date">> ELSE <<>>
        m2 == IF claim.incident_location = JNull
              THEN Append(m1, "incident_location") ELSE m1
        m3 == IF claim.policyholder_name = JNull
              THEN Append(m2, "policyholder_name") ELSE m2
        m4 == IF claim.damage = JNull \/ claim.damage.description = JNull
              THEN Append(m3, "damage.description") ELSE m3
    IN  [is_valid |-> Len(m4) = 0, missing_fields |-> m4]

\* four tests in a fixed order, each appending one name
validate_required_fields(claim) ==
    LET m1 == IF ~Truthy(claim.incident_date)
              THEN <<"incident_date">> ELSE <<>>
        m2 == IF ~Truthy(claim.incident_location)
              THEN Append(m1, "incident_location") ELSE m1
        m3 == IF ~Truthy(claim.policyholder_name)
              THEN Append(m2, "policyholder_name") ELSE m2
        m4 == IF claim.damage = JNull \/ ~Truthy(claim.damage.description)
              THEN Append(m3, "damage.description") ELSE m3
    IN  [is_valid |-> Len(m4) = 0, missing_fields |-> m4]

\* the for loop of validate_all from position i on: the count of valid
\* claims and the list of entries for the invalid ones
RECURSIVE ValidateFrom(_, _)
ValidateFrom(claims, i) ==
    IF i > Len(claims)
    THEN [valid_count |-> 0, invalid_claims |-> <<>>]
    ELSE LET r == validate_required_fields(claims[i])
             rest == ValidateFrom(claims, i + 1)
         IN  IF r.is_valid
             THEN [rest EXCEPT !.valid_count = @ + 1]
             ELSE [rest EXCEPT !.invalid_claims =
                      <<[index |-> i - 1, claim_id |-> claims[i].claim_id,
                         missing_fields |-> r.missing_fields]>> \o @]

\* valid claims are whatever is not listed as invalid, the entries
\* numbered from one
validate_all_OneBased(batch) ==
    LET r == ValidateFrom(batch.claims, 1)
    IN  [total_claims |-> Len(batch.claims),
         valid_claims |-> r.valid_count,
         invalid_claims |-> Len(r.invalid_claims),
         invalid_details |->
             [k \in 1..Len(r.invalid_claims) |->
                 [r.invalid_claims[k] EXCEPT !.index = @ + 1]]]

validate_all(batch) ==
    LET r == ValidateFrom(batch.claims, 1)
    IN  [total_claims |-> Len(batch.claims),
         valid_claims |-> r.valid_count,
         invalid_claims |-> Len(r.invalid_claims),
         invalid_details |-> r.invalid_claims]

DescribedCost(text, cost) ==
    [type |-> "DamageInfo", description |-> JStr(text),
     estimated_repair_cost |-> cost]

Described(text) == DescribedCost(text, JNull)

\* claim records the decoder can produce
ClaimRecords ==
    [claim_id : {JNull, JStr("C001")},
     incident_date : {JNull, JStr(""), JStr("2024-01-15")},
     incident_location : {JNull, JStr("highway")},
     policyholder_name : {JNull, JStr("John")},
     damage : {JNull, Described(""), Described("chip")}]

OnlyClaimId(id) ==
    [claim_id |-> id, incident_date |-> JNull, incident_location |-> JNull,
     policyholder_name |-> JNull, damage |-> JNull]

Complete(id) ==
    [claim_id |-> id, incident_date |-> JStr("2024-01-15"),
     incident_location |-> JStr("highway"),
     policyholder_name |-> JStr("John"), damage |-> Described("chip")]

\* the claims batches are made of
BatchClaimRecords ==
    UNION { { OnlyClaimId(id), Complete(id),
              [Complete(id) EXCEPT !.incident_date = JStr("")],
              [Complete(id) EXCEPT !.damage = JNull,
                                   !.policyholder_name = JNull] }
            : id \in {JNull, JStr("C001"), JStr("C002")} }

ClaimBatches ==
    { Batch(claims) :
        claims \in UNION { [1..n -> BatchClaimRecords] : n \in 0..MaxClaims } }

\* no stage function and no loop is running
NoCall ==
    /\ api_key = JNull
    /\ enable_feedback_loop = FALSE
    /\ client_created = FALSE
    /\ calls = 0
    /\ response = <<>>
    /\ error = NoError
    /\ batch_info = NoResult
    /\ invoked = <<>>
    /\ severity_assessment = NoResult
    /\ pc = "idle"
    /\ max_iterations = DefaultMaxIterations
    /\ initial_extraction = NoResult
    /\ current_extraction = NoResult
    /\ iteration = 0
    /\ feedback_response = <<>>
    /\ feedback_data = JNull
    /\ quality_score = JNull
    /\ json_valid = JNull
    /\ refinement_response = <<>>
    /\ request = NoRequest
    /\ feedback_calls = 0
    /\ refinement_calls = 0
    /\ outcome = "none"
    /\ exception = "none"
    /\ result = NoResult
    /\ last_refined = NoResult
    /\ only_zero_scores = TRUE

no_call_vars ==
    <<api_key, enable_feedback_loop, client_created, calls, response, error,
      batch_info, request, invoked, severity_assessment>>

\* a validator has just been called on a claim or on a batch
ValidatorInit ==
    /\ fn \in {"validate_required_fields", "validate_all"}
    /\ fpc = "entry"
    /\ arg \in IF fn = "validate_required_fields" THEN ClaimRecords
                ELSE ClaimBatches
    /\ ret = NoResult
    /\ NoCall

ValidateRequiredFields ==
    /\ fn = "validate_required_fields"
    /\ fpc = "entry"
    /\ ret' = validate_required_fields(arg)
    /\ fpc' = "returned"
    /\ UNCHANGED <<fn, arg>>
    /\ UNCHANGED no_call_vars
    /\ UNCHANGED loop_vars

ValidateAll ==
    /\ fn = "validate_all"
    /\ fpc = "entry"
    /\ ret' = validate_all(arg)
    /\ fpc' = "returned"
    /\ UNCHANGED <<fn, arg>>
    /\ UNCHANGED no_call_vars
    /\ UNCHANGED loop_vars

ValidatorNext == ValidateRequiredFields \/ ValidateAll

ValidatorSpec == ValidatorInit /\ [][ValidatorNext]_vars

(***************************************************************************)
(* Properties of the validators                                            *)
(***************************************************************************)
RequiredNames ==
    <<"incident_date", "incident_location", "policyholder_name",
      "damage.description">>

\* the value of the field a required name stands for; None when the claim
\* has no damage descriptor
RequiredValue(claim, name) ==
    CASE name = "incident_date" -> claim.incident_date
      [] name = "incident_location" -> claim.incident_location
      [] name = "policyholder_name" -> claim.policyholder_name
      [] name = "damage.description" ->
            IF claim.damage = JNull THEN JNull ELSE claim.damage.description

Absent(claim, name) == RequiredValue(claim, name) = JNull

AbsentOrEmpty(claim, name) == RequiredValue(claim, name) \in {JNull, JStr("")}

SubList(claim, Missing(_, _)) ==
    SelectSeq(RequiredNames, LAMBDA name : Missing(claim, name))

FieldsValidated == fn = "validate_required_fields" /\ fpc = "returned"

\* C16 as stated: validate_required_fields returns (isValid, missing) where
\* missing is exactly the sub-list of the four required names whose field
\* is absent, in the fixed order, and isValid holds iff missing is empty.
C16_MissingAreTheAbsentFields ==
    FieldsValidated =>
        /\ ret.missing_fields = SubList(arg, Absent)
        /\ ret.is_valid <=> ret.missing_fields = <<>>

\* C16 amended: missing is exactly the sub-list of the four required names
\* whose field is absent or an empty string, in the fixed order; isValid
\* holds iff missing is empty; a claim with only claim_id set yields
\* (false, all four names).
C16_MissingAreTheAbsentOrEmptyFields ==
    FieldsValidated =>
        /\ ret.missing_fields = SubList(arg, AbsentOrEmpty)
        /\ ret.is_valid <=> ret.missing_fields = <<>>
        /\ arg = OnlyClaimId(arg.claim_id) =>
               ret = [is_valid |-> FALSE, missing_fields |-> RequiredNames]

C16_Witness ==
    /\ FieldsValidated
    /\ arg = OnlyClaimId(JStr("C001"))
    /\ ret = [is_valid |-> FALSE, missing_fields |-> RequiredNames]

\* positions, counted from zero, of the invalid claims of a batch
InvalidIndexes(batch) ==
    { i \in 0..(Len(batch.claims) - 1) :
        SubList(batch.claims[i + 1], AbsentOrEmpty) # <<>> }

\* C17: validate_all returns total_claims = number of claims =
\* valid_claims + invalid_claims, and invalid_details holds exactly one
\* entry per invalid claim, in batch order, carrying that claim's position
\* index, claim_id and missing-field list.
C17_ValidationSummary ==
    (fn = "validate_all" /\ fpc = "returned") =>
        LET details == ret.invalid_details IN
        /\ ret.total_claims = Len(arg.claims)
        /\ ret.total_claims = ret.valid_claims + ret.invalid_claims
        /\ ret.invalid_claims = Len(details)
        /\ ret.invalid_claims = Cardinality(InvalidIndexes(arg))
        /\ { details[k].index : k \in 1..Len(details) } = InvalidIndexes(arg)
        /\ \A k \in 1..(Len(details) - 1) :
               details[k].index < details[k + 1].index
        /\ \A k \in 1..Len(details) :
               /\ details[k].claim_id = arg.claims[details[k].index + 1].claim_id
               /\ details[k].missing_fields =
                      SubList(arg.claims[details[k].index + 1], AbsentOrEmpty)

C17_Witness ==
    /\ fn = "validate_all"
    /\ fpc = "returned"
    /\ ret.total_claims = 2
    /\ ret.valid_claims = 1
    /\ ret.invalid_claims = 1
    /\ ret.invalid_details[1].index = 1
    /\ ret.invalid_details[1].claim_id = JStr("C002")

(***************************************************************************)
(* The response sanitizer applied to one raw response text                 *)
(***************************************************************************)
\* commentary without braces, before and after the fenced block
PlainProse == { <<>>, <<WS>>, <<"p", WS>>, <<WS, "p", "p", WS>> }
PlainTrailer == { <<>>, <<WS>>, <<WS, "p">>, <<WS, "p", WS, "p", WS>> }

\* commentary that itself holds braces
BracedProse == { <<"{", "p", "}", WS>>, <<"p", "{", WS>> }
BracedTrailer == { <<WS, "}">>, <<WS, "{", "p", "}">> }

FenceTags == { <<>>, <<LANG>> }

\* JSON objects a response wraps
Bodies ==
    { Obj(<<>>), Obj(<<"note:", "'text'">>), BatchText(Claim2),
      BatchText(Claim1NoDate \o Claim2),
      Obj(<<WS, "overall_quality_score:", WS, "10", WS>>) }

\* prose, opening fence with or without the language tag, the object,
\* closing fence, prose
Wrap(pre, tag, body, post) ==
    pre \o <<FENCE>> \o tag \o <<WS>> \o body \o <<WS, FENCE>> \o post

WrappedTexts ==
    { Wrap(pre, tag, body, post) :
        pre \in PlainProse \cup BracedProse, tag \in FenceTags,
        body \in Bodies, post \in PlainTrailer \cup BracedTrailer }

\* texts without an opening brace followed later by a closing brace
BracelessCores ==
    { <<>>, <<"p">>, <<"null">>, <<"[", "]">>, <<"{">>, <<"}">>,
      <<"{", "p">>, <<"p", "}">>, <<"}", "p", "{">>, <<"}", "}", WS, "{">> }

BracelessTexts ==
    BracelessCores
    \cup { <<WS>> \o t \o <<WS>> : t \in BracelessCores }
    \cup { Fenced(t) : t \in BracelessCores }
    \cup { <<WS, FENCE, WS>> \o t \o <<WS, FENCE, WS>> : t \in BracelessCores }
    \cup { <<"p", WS, FENCE>> \o t : t \in BracelessCores }

\* the sanitizer is about to run on a raw response text
SanitizerInit ==
    /\ fn = "sanitize"
    /\ fpc = "entry"
    /\ arg \in WrappedTexts \cup BracelessTexts
    /\ ret = NoResult
    /\ NoCall

\* strip, the three fence tests, strip, the brace slice
SanitizeText ==
    /\ fn = "sanitize"
    /\ fpc = "entry"
    /\ ret' = Sanitize(arg)
    /\ fpc' = "returned"
    /\ UNCHANGED <<fn, arg>>
    /\ UNCHANGED no_call_vars
    /\ UNCHANGED loop_vars

SanitizerNext == SanitizeText

SanitizerSpec == SanitizerInit /\ [][SanitizerNext]_vars

(***************************************************************************)
(* Properties of the sanitizer                                             *)
(***************************************************************************)
\* the text without its fence markers and their language tags
RECURSIVE RemoveFences(_)
RemoveFences(t) ==
    IF t = <<>> THEN <<>>
    ELSE IF Head(t) = FENCE
    THEN IF Len(t) >= 2 /\ t[2] = LANG
         THEN RemoveFences(DropFirst(t, 2))
         ELSE RemoveFences(Tail(t))
    ELSE <<Head(t)>> \o RemoveFences(Tail(t))

Positions(t, ch) == { i \in 1..Len(t) : t[i] = ch }

\* the span of t from its first opening to its last closing brace
BraceSpan(t) ==
    LET opens == Positions(t, "{")
        closes == Positions(t, "}")
    IN  { SubSeq(t, i, j) :
            <<i, j>> \in { <<a, b>> \in opens \X closes :
                             /\ \A c \in opens : a <= c
                             /\ \A c \in closes : c <= b } }

Sanitized == fn = "sanitize" /\ fpc = "returned"

\* C20 as stated: for every raw response wrapping a JSON object in fence
\* markers (with or without a language tag) and leading/trailing prose, the
\* sanitizer output is exactly the span from the first opening brace to the
\* last closing brace of the text with fences removed.
C20_SpanOfTextWithoutFences ==
    (Sanitized /\ arg \in WrappedTexts) =>
        BraceSpan(RemoveFences(arg)) = {ret}

\* C20 amended: when the prose around the fenced object holds no brace, the
\* sanitizer output is exactly the wrapped object, which is the span from
\* the first opening brace to the last closing brace of the text with
\* fences removed; the sanitizer returns a text for every input.
C20_SpanWhenProseHasNoBrace ==
    /\ fn = "sanitize" => Len(Sanitize(arg)) <= Len(arg)
    /\ Sanitized =>
          /\ ret = Sanitize(arg)
          /\ \A pre \in PlainProse, tag \in FenceTags, body \in Bodies,
                post \in PlainTrailer :
                 arg = Wrap(pre, tag, body, post) =>
                     /\ ret = body
                     /\ BraceSpan(RemoveFences(arg)) = {ret}

C20_Witness ==
    /\ Sanitized
    /\ arg = Wrap(<<"p", WS>>, <<LANG>>, BatchText(Claim2), <<WS, "p">>)
    /\ ret = BatchText(Claim2)

\* no opening brace, no closing brace, or the last closing brace is not
\* after the first opening brace
NoBracePair(t) ==
    \A i \in Positions(t, "{"), j \in Positions(t, "}") :
        (\E k \in Positions(t, "{") : k < i) \/ (\E k \in Positions(t, "}") : k > j)
            \/ j < i

\* neither whitespace nor a fence marker at either end
Unwrapped(t) ==
    t # <<>> => /\ t[1] \notin {WS, FENCE}
                /\ t[Len(t)] \notin {WS, FENCE}

\* C21 as stated: a raw response without a brace pair (no opening brace, no
\* closing brace, or the last closing brace not after the first opening
\* brace) is passed through by the sanitizer unchanged.
C21_BracelessTextUnchanged ==
    (Sanitized /\ NoBracePair(arg)) => ret = arg

\* C21 amended: for a raw response without a brace pair the brace slice
\* changes nothing: the sanitizer output is the raw text after trimming
\* and removal of a leading and a trailing fence marker, and it is the raw
\* text itself when that text has neither whitespace nor a fence marker at
\* either end.
C21_BracelessTextOnlyTrimmed ==
    (Sanitized /\ NoBracePair(arg)) =>
        /\ ret = StripFences(arg)
        /\ Unwrapped(arg) => ret = arg

C21_Witness ==
    /\ Sanitized
    /\ arg = <<"}", "p", "{">>
    /\ ret = arg

(***************************************************************************)
(* model_dump_json of a batch, and the round trip through json.loads and   *)
(* BatchFNOLInfo construction                                              *)
(***************************************************************************)
\* an Optional[str] field: null for None, the quoted string otherwise
DumpStr(v) ==
    IF v.type = "null" THEN "null"
    ELSE CHOOSE tok \in DOMAIN ScalarValue : ScalarValue[tok] = v

\* an Optional[float] field: null for None, the float literal for a finite
\* value, null again for infinity
DumpFloat(v) ==
    IF v.type \in {"null", "inf"} THEN "null"
    ELSE CHOOSE tok \in DOMAIN ScalarValue : ScalarValue[tok] = v

DumpDamage(d) ==
    IF d = JNull THEN <<"null">>
    ELSE Obj(<<"description:", DumpStr(d.description),
               "estimated_repair_cost:", DumpFloat(d.estimated_repair_cost)>>)

\* every field is written, None as null
DumpClaim(claim) ==
    Obj(<<"claim_id:", DumpStr(claim.claim_id),
          "incident_date:", DumpStr(claim.incident_date),
          "incident_location:", DumpStr(claim.incident_location),
          "policyholder_name:", DumpStr(claim.policyholder_name),
          "damage:">> \o DumpDamage(claim.damage))

RECURSIVE DumpClaims(_)
DumpClaims(claims) ==
    IF claims = <<>> THEN <<>>
    ELSE DumpClaim(Head(claims)) \o DumpClaims(Tail(claims))

model_dump_json(batch) == BatchText(DumpClaims(batch.claims))

CompleteCost(id, cost) ==
    [Complete(id) EXCEPT !.damage = DescribedCost("chip", cost)]

\* claims the decoder can produce, with and without a repair cost
RoundTripClaims ==
    UNION { { OnlyClaimId(id), Complete(id),
              [Complete(id) EXCEPT !.incident_date = JStr("")],
              CompleteCost(id, JFloat(0)), CompleteCost(id, JFloat(5)),
              CompleteCost(id, JInf) }
            : id \in {JNull, JStr("C001")} }

RoundTripBatches ==
    { Batch(claims) :
        claims \in UNION { [1..n -> RoundTripClaims] : n \in 0..MaxClaims } }

\* a batch is about to be serialized
RoundTripInit ==
    /\ fn = "round_trip"
    /\ fpc = "entry"
    /\ arg \in RoundTripBatches
    /\ ret = NoResult
    /\ NoCall

DumpJson ==
    /\ fn = "round_trip"
    /\ fpc = "entry"
    /\ response' = model_dump_json(arg)
    /\ fpc' = "dumped"
    /\ UNCHANGED <<fn, arg, ret, api_key, enable_feedback_loop,
                   client_created, calls, error, batch_info, request,
                   invoked, severity_assessment>>
    /\ UNCHANGED loop_vars

LoadJson ==
    /\ fn = "round_trip"
    /\ fpc = "dumped"
    /\ ret' = DecodeBatch(response)
    /\ fpc' = "returned"
    /\ UNCHANGED <<fn, arg>>
    /\ UNCHANGED no_call_vars
    /\ UNCHANGED loop_vars

RoundTripNext == DumpJson \/ LoadJson

RoundTripSpec == RoundTripInit /\ [][RoundTripNext]_vars

\* C22: for every batch, decoding the batch's own serialization
\* (model_dump_json, then json.loads and BatchFNOLInfo construction)
\* reproduces a batch equal to the original.
C22_RoundTrip ==
    (fn = "round_trip" /\ fpc = "returned") =>
        /\ ret.ok
        /\ ret.batch = arg

(***************************************************************************)
(* One run of main, from the try block on: the input file, then the three  *)
(* stage functions.  A stage call is one step; its outcomes are those of   *)
(* the stage model above.                                                  *)
(***************************************************************************)
\* the input path does not exist, or the file is of length zero, holds
\* whitespace only, or holds text
InputFiles == {"missing", "empty", "blank", "text"}

\* only a file of length zero counts as empty
InputEmpty_NoStrip(input) == input = "empty"

\* not fnol_text.strip()
InputEmpty(input) == input \in {"empty", "blank"}

StageOrder ==
    <<"extract_fnol_information_batch", "assess_claim_severity",
      "route_claims_to_queues">>

\* batches the feedback loop can hand back for an initial batch: that batch
\* or the batch of a refinement response that decoded
LoopResults(batch) ==
    {batch} \cup { DecodeBatch(Sanitize(t)).batch :
                     t \in { u \in RefinementTexts : DecodeBatch(Sanitize(u)).ok } }

MainInit ==
    /\ fn = "main"
    /\ fpc = "read_input"
    /\ arg \in [input : InputFiles, feedback_loop : BOOLEAN]
    /\ api_key \in ApiKeys
    /\ enable_feedback_loop = FALSE
    /\ client_created = FALSE
    /\ calls = 0
    /\ response = <<>>
    /\ error = NoError
    /\ batch_info = NoResult
    /\ invoked = <<>>
    /\ severity_assessment = NoResult
    /\ ret = NoResult
    /\ pc = "idle"
    /\ max_iterations = DefaultMaxIterations
    /\ initial_extraction = NoResult
    /\ current_extraction = NoResult
    /\ iteration = 0
    /\ feedback_response = <<>>
    /\ feedback_data = JNull
    /\ quality_score = JNull
    /\ json_valid = JNull
    /\ refinement_response = <<>>
    /\ request = NoRequest
    /\ feedback_calls = 0
    /\ refinement_calls = 0
    /\ outcome = "none"
    /\ exception = "none"
    /\ result = NoResult
    /\ last_refined = NoResult
    /\ only_zero_scores = TRUE

\* sys.exit(code), or the return from main
Exit(code, reason) ==
    /\ fpc' = "exited"
    /\ ret' = [type |-> "exit", code |-> code, reason |-> reason]

\* except ValueError and except Exception both end in sys.exit(1)
ExitOnException(exc) ==
    /\ error' = exc
    /\ Exit(1, IF exc.cls = "ValueError" THEN "ValueError" ELSE "Exception")

main_frame ==
    <<fn, arg, api_key, request>>

\* the input file is looked up, read and tested for emptiness
ReadInput ==
    /\ fn = "main"
    /\ fpc = "read_input"
    /\ IF arg.input = "missing" THEN Exit(1, "input_missing")
       ELSE IF InputEmpty(arg.input) THEN Exit(1, "input_empty")
       ELSE fpc' = "stage1" /\ UNCHANGED ret
    /\ UNCHANGED <<enable_feedback_loop, client_created, calls, response,
                   error, batch_info, invoked, severity_assessment>>
    /\ UNCHANGED main_frame
    /\ UNCHANGED loop_vars

\* batch_info = extract_fnol_information_batch(fnol_text, ...)
MainExtract ==
    /\ fn = "main"
    /\ fpc = "stage1"
    /\ invoked' = Append(invoked, "extract_fnol_information_batch")
    /\ enable_feedback_loop' = arg.feedback_loop
    /\ IF ApiKeyMissing(api_key)
       THEN /\ ExitOnException(ConfigError)
            /\ UNCHANGED <<client_created, calls, response, batch_info>>
       ELSE /\ client_created' = TRUE
            /\ calls' = calls + 1
            /\ \/ /\ ExitOnException(GeneratorError)
                  /\ UNCHANGED <<response, batch_info>>
               \/ \E text \in InitialResponseTexts :
                     /\ response' = text
                     /\ \E decoded \in {DecodeBatch(Sanitize(text))} :
                          IF ~decoded.ok
                          THEN /\ ExitOnException(DecodeError(decoded, text))
                               /\ UNCHANGED batch_info
                          ELSE IF ~RunFeedbackLoop(arg.feedback_loop)
                          THEN /\ batch_info' = decoded.batch
                               /\ fpc' = "stage2"
                               /\ UNCHANGED <<error, ret>>
                          ELSE \/ \E b \in LoopResults(decoded.batch) :
                                    /\ batch_info' = b
                                    /\ fpc' = "stage2"
                                    /\ UNCHANGED <<error, ret>>
                               \/ /\ ExitOnException(CreateError)
                                  /\ UNCHANGED batch_info
    /\ UNCHANGED severity_assessment
    /\ UNCHANGED main_frame
    /\ UNCHANGED loop_vars

\* severity_assessment = assess_claim_severity(batch_info)
MainAssess ==
    /\ fn = "main"
    /\ fpc = "stage2"
    /\ invoked' = Append(invoked, "assess_claim_severity")
    /\ IF ApiKeyMissing(api_key)
       THEN /\ ExitOnException(ConfigError)
            /\ UNCHANGED <<calls, response, severity_assessment>>
       ELSE /\ calls' = calls + 1
            /\ \/ /\ ExitOnException(GeneratorError)
                  /\ UNCHANGED <<response, severity_assessment>>
               \/ \E text \in AssessmentTexts :
                     /\ response' = text
                     /\ \E decoded \in {DecodeAssessments(Sanitize(text))} :
                          IF decoded.ok
                          THEN /\ severity_assessment' = decoded.batch
                               /\ fpc' = "stage3"
                               /\ UNCHANGED <<error, ret>>
                          ELSE /\ ExitOnException(DecodeError(decoded, text))
                               /\ UNCHANGED severity_assessment
    /\ UNCHANGED <<enable_feedback_loop, client_created, batch_info>>
    /\ UNCHANGED main_frame
    /\ UNCHANGED loop_vars

\* queue_routing = route_claims_to_queues(batch_info, severity_assessment),
\* then the return from main
MainRoute ==
    /\ fn = "main"
    /\ fpc = "stage3"
    /\ invoked' = Append(invoked, "route_claims_to_queues")
    /\ IF ApiKeyMissing(api_key)
       THEN /\ ExitOnException(ConfigError)
            /\ UNCHANGED <<calls, response>>
       ELSE /\ calls' = calls + 1
            /\ \/ /\ ExitOnException(GeneratorError)
                  /\ UNCHANGED response
               \/ \E text \in RoutingTexts :
                     /\ response' = text
                     /\ \E decoded \in {DecodeRoutings(Sanitize(text))} :
                          IF decoded.ok
                          THEN Exit(0, "done") /\ UNCHANGED error
                          ELSE ExitOnException(DecodeError(decoded, text))
    /\ UNCHANGED <<enable_feedback_loop, client_created, batch_info,
                   severity_assessment>>
    /\ UNCHANGED main_frame
    /\ UNCHANGED loop_vars

MainNext == ReadInput \/ MainExtract \/ MainAssess \/ MainRoute

MainSpec == MainInit /\ [][MainNext]_vars

(***************************************************************************)
(* Properties of a run of main                                             *)
(***************************************************************************)
IsPrefix(a, b) == Len(a) <= Len(b) /\ a = SubSeq(b, 1, Len(a))

\* C23: main calls the stages in the order extraction, severity
\* assessment, routing; on a missing or empty input file, a missing
\* credential, a decode failure or a generator failure in any stage it
\* exits with code 1 and calls no later stage; otherwise it exits with
\* code 0.
C23_StagesInOrderAndExitCodes ==
    [][ /\ fpc # "exited"
        /\ IsPrefix(invoked', StageOrder)
        /\ fpc' = "stage1" => invoked' = <<>>
        /\ fpc' = "stage2" => invoked' = SubSeq(StageOrder, 1, 1)
        /\ fpc' = "stage3" => invoked' = SubSeq(StageOrder, 1, 2)
        /\ error' # NoError => fpc' = "exited" /\ ret'.code = 1
        /\ fpc' = "exited" =>
              /\ ret'.code \in {0, 1}
              /\ ret'.code = 0 <=>
                    /\ arg.input = "text"
                    /\ api_key \notin {JNull, JStr("")}
                    /\ error' = NoError
                    /\ invoked' = StageOrder
                    /\ calls' = 3
              /\ arg.input \in {"missing", "empty", "blank"} =>
                    invoked' = <<>> /\ calls' = 0
              /\ (arg.input = "text" /\ api_key \in {JNull, JStr("")}) =>
                    /\ invoked' = SubSeq(StageOrder, 1, 1)
                    /\ calls' = 0
                    /\ error' = ConfigError
              /\ error' # NoError => calls' <= Len(invoked')
      ]_vars

C23_Witness ==
    /\ fn = "main"
    /\ fpc = "exited"
    /\ ret.code = 1
    /\ invoked = SubSeq(StageOrder, 1, 2)
    /\ error = GeneratorError
    /\ severity_assessment = NoResult

(***************************************************************************)
(* The breakdown helpers of BatchSeverityAssessment and BatchQueueRouting  *)
(***************************************************************************)
MaxEntries == 3

\* the characters of the strings that occur as severities and queues
Spell ==
    ("Minor" :> <<"M", "i", "n", "o", "r">>)
    @@ ("minor" :> <<"m", "i", "n", "o", "r">>)
    @@ ("MINOR" :> <<"M", "I", "N", "O", "R">>)
    @@ ("Moderate" :> <<"M", "o", "d", "e", "r", "a", "t", "e">>)
    @@ ("moderate" :> <<"m", "o", "d", "e", "r", "a", "t", "e">>)
    @@ ("Major" :> <<"M", "a", "j", "o", "r">>)
    @@ ("mAJOR" :> <<"m", "A", "J", "O", "R">>)
    @@ ("severe" :> <<"s", "e", "v", "e", "r", "e">>)
    @@ ("" :> <<>>)
    @@ ("glass" :> <<"g", "l", "a", "s", "s">>)
    @@ ("Glass" :> <<"G", "l", "a", "s", "s">>)
    @@ ("GLASS" :> <<"G", "L", "A", "S", "S">>)
    @@ ("fast_track" :> <<"f", "a", "s", "t", "_", "t", "r", "a", "c", "k">>)
    @@ ("Fast_Track" :> <<"F", "a", "s", "t", "_", "T", "r", "a", "c", "k">>)
    @@ ("material_damage" :> <<"m", "a", "t", "e", "r", "i", "a", "l", "_", "d", "a", "m", "a", "g", "e">>)
    @@ ("total_loss" :> <<"t", "o", "t", "a", "l", "_", "l", "o", "s", "s">>)
    @@ ("TOTAL_LOSS" :> <<"T", "O", "T", "A", "L", "_", "L", "O", "S", "S">>)
    @@ ("other" :> <<"o", "t", "h", "e", "r">>)

LowerCase ==
    ("A" :> "a") @@ ("C" :> "c") @@ ("D" :> "d") @@ ("E" :> "e") @@ ("F"
    :> "f") @@ ("G" :> "g") @@ ("H" :> "h") @@ ("I" :> "i") @@ ("J" :>
    "j") @@ ("K" :> "k") @@ ("L" :> "l") @@ ("M" :> "m") @@ ("N" :> "n")
    @@ ("O" :> "o") @@ ("R" :> "r") @@ ("S" :> "s") @@ ("T" :> "t") @@
    ("V" :> "v")

UpperCase ==
    ("a" :> "A") @@ ("c" :> "C") @@ ("d" :> "D") @@ ("e" :> "E") @@ ("f"
    :> "F") @@ ("g" :> "G") @@ ("h" :> "H") @@ ("i" :> "I") @@ ("j" :>
    "J") @@ ("k" :> "K") @@ ("l" :> "L") @@ ("m" :> "M") @@ ("n" :> "N")
    @@ ("o" :> "O") @@ ("r" :> "R") @@ ("s" :> "S") @@ ("t" :> "T") @@
    ("v" :> "V")

lower_char(c) == IF c \in DOMAIN LowerCase THEN LowerCase[c] ELSE c
upper_char(c) == IF c \in DOMAIN UpperCase THEN UpperCase[c] ELSE c

\* str.lower
lower(w) == [i \in 1..Len(w) |-> lower_char(w[i])]

\* str.capitalize: first character upper case, the rest lower case
capitalize(w) ==
    [i \in 1..Len(w) |-> IF i = 1 THEN upper_char(w[i]) ELSE lower_char(w[i])]

\* the loop of a breakdown helper from entry i on, over the normalised
\* values: the count under the key a value spells is raised, a value that
\* spells no key is passed over
RECURSIVE CountFrom(_, _, _)
CountFrom(values, i, breakdown) ==
    IF i > Len(values) THEN breakdown
    ELSE LET hits == { k \in DOMAIN breakdown : Spell[k] = values[i] }
         IN  CountFrom(values, i + 1,
                       [k \in DOMAIN breakdown |->
                           IF k \in hits THEN breakdown[k] + 1
                           ELSE breakdown[k]])

SeverityKeys == {"Minor", "Moderate", "Major"}
QueueKeys == {"glass", "fast_track", "material_damage", "total_loss"}
PriorityKeys == 1..5

\* the severity is compared as it stands
get_severity_breakdown_Exact(batch) ==
    CountFrom([i \in 1..Len(batch.assessments) |->
                   Spell[batch.assessments[i].severity.s]],
              1, [k \in SeverityKeys |-> 0])

get_severity_breakdown(batch) ==
    CountFrom([i \in 1..Len(batch.assessments) |->
                   capitalize(Spell[batch.assessments[i].severity.s])],
              1, [k \in SeverityKeys |-> 0])

get_queue_breakdown(batch) ==
    CountFrom([i \in 1..Len(batch.routings) |->
                   lower(Spell[batch.routings[i].queue.s])],
              1, [k \in QueueKeys |-> 0])

RECURSIVE PriorityCountFrom(_, _, _)
PriorityCountFrom(routings, i, breakdown) ==
    IF i > Len(routings) THEN breakdown
    ELSE PriorityCountFrom(routings, i + 1,
             IF routings[i].priority.n \in DOMAIN breakdown
             THEN [breakdown EXCEPT ![routings[i].priority.n] = @ + 1]
             ELSE breakdown)

get_priority_breakdown(batch) ==
    PriorityCountFrom(batch.routings, 1, [k \in PriorityKeys |-> 0])

\* assessments and routings the decoders can produce
AssessmentRecords ==
    [claim_id : {JStr("C001")},
     severity : { JStr(w) : w \in {"Minor", "minor", "MINOR", "Moderate",
                                   "mAJOR", "severe", ""} },
     estimated_cost : {JInt(5)}]

RoutingRecords ==
    [claim_id : {JStr("C001")},
     queue : { JStr(w) : w \in {"glass", "GLASS", "Fast_Track",
                                "TOTAL_LOSS", "other"} },
     priority : {JInt(1), JInt(5)}]

AssessmentBatches ==
    { [type |-> "BatchSeverityAssessment", assessments |-> a] :
        a \in UNION { [1..n -> AssessmentRecords] : n \in 0..MaxEntries } }

RoutingBatches ==
    { [type |-> "BatchQueueRouting", routings |-> r] :
        r \in UNION { [1..n -> RoutingRecords] : n \in 0..MaxEntries } }

BreakdownInit ==
    /\ fn \in {"get_severity_breakdown", "get_queue_breakdown",
               "get_priority_breakdown"}
    /\ fpc = "entry"
    /\ arg \in IF fn = "get_severity_breakdown" THEN AssessmentBatches
                ELSE RoutingBatches
    /\ ret = NoResult
    /\ NoCall

SeverityBreakdown ==
    /\ fn = "get_severity_breakdown"
    /\ fpc = "entry"
    /\ ret' = get_severity_breakdown(arg)
    /\ fpc' = "returned"
    /\ UNCHANGED <<fn, arg>>
    /\ UNCHANGED no_call_vars
    /\ UNCHANGED loop_vars

QueueBreakdown ==
    /\ fn = "get_queue_breakdown"
    /\ fpc = "entry"
    /\ ret' = get_queue_breakdown(arg)
    /\ fpc' = "returned"
    /\ UNCHANGED <<fn, arg>>
    /\ UNCHANGED no_call_vars
    /\ UNCHANGED loop_vars

PriorityBreakdown ==
    /\ fn = "get_priority_breakdown"
    /\ fpc = "entry"
    /\ ret' = get_priority_breakdown(arg)
    /\ fpc' = "returned"
    /\ UNCHANGED <<fn, arg>>
    /\ UNCHANGED no_call_vars
    /\ UNCHANGED loop_vars

BreakdownNext == SeverityBreakdown \/ QueueBreakdown \/ PriorityBreakdown

BreakdownSpec == BreakdownInit /\ [][BreakdownNext]_vars

(***************************************************************************)
(* Properties of the breakdown helpers                                     *)
(***************************************************************************)
\* two strings are equal up to the case of their letters
SameUpToCase(a, b) ==
    /\ Len(Spell[a]) = Len(Spell[b])
    /\ \A i \in 1..Len(Spell[a]) :
           \/ Spell[a][i] = Spell[b][i]
           \/ <<Spell[a][i], Spell[b][i]>> \in
                  { <<c, LowerCase[c]>> : c \in DOMAIN LowerCase }
                  \cup { <<LowerCase[c], c>> : c \in DOMAIN LowerCase }

RECURSIVE SumOver(_, _)
SumOver(f, keys) ==
    IF keys = {} THEN 0
    ELSE LET k == CHOOSE k \in keys : TRUE
         IN  f[k] + SumOver(f, keys \ {k})

\* C24: each breakdown helper returns, for each of its fixed keys, exactly
\* the number of entries whose value equals that key up to case; an entry
\* with an unrecognised value is counted under no key, so the counts sum to
\* at most the number of entries, and for priorities to exactly the number
\* of routings.
C24_BreakdownCounts ==
    fpc = "returned" =>
        /\ fn = "get_severity_breakdown" =>
              /\ DOMAIN ret = SeverityKeys
              /\ \A k \in SeverityKeys :
                     ret[k] = Cardinality(
                         { i \in 1..Len(arg.assessments) :
                             SameUpToCase(arg.assessments[i].severity.s, k) })
              /\ SumOver(ret, SeverityKeys) <= Len(arg.assessments)
        /\ fn = "get_queue_breakdown" =>
              /\ DOMAIN ret = QueueKeys
              /\ \A k \in QueueKeys :
                     ret[k] = Cardinality(
                         { i \in 1..Len(arg.routings) :
                             SameUpToCase(arg.routings[i].queue.s, k) })
              /\ SumOver(ret, QueueKeys) <= Len(arg.routings)
        /\ fn = "get_priority_breakdown" =>
              /\ DOMAIN ret = PriorityKeys
              /\ \A k \in PriorityKeys :
                     ret[k] = Cardinality(
                         { i \in 1..Len(arg.routings) :
                             arg.routings[i].priority = JInt(k) })
              /\ SumOver(ret, PriorityKeys) = Len(arg.routings)

C24_Witness ==
    /\ fn = "get_severity_breakdown"
    /\ fpc = "returned"
    /\ Len(arg.assessments) = 3
    /\ arg.assessments[1].severity = JStr("MINOR")
    /\ arg.assessments[2].severity = JStr("severe")
    /\ arg.assessments[3].severity = JStr("mAJOR")
    /\ ret = [k \in SeverityKeys |-> IF k = "Moderate" THEN 0 ELSE 1]

(***************************************************************************)
(* Order of the generator invocations of the loop.  request is the last    *)
(* invocation made; the two counters tell which kind a step adds.          *)
(***************************************************************************)
\* the step sends a critique request
SendsCritique == feedback_calls' = feedback_calls + 1

\* the step sends a refinement request
SendsRefinement == refinement_calls' = refinement_calls + 1

\* critique and refinement alternate, starting with a critique; a
\* refinement follows a non-converging critique of its own round, carries
\* that critique's report, and is never sent in round max_iterations
Alternation ==
    /\ feedback_calls' \in {feedback_calls, feedback_calls + 1}
    /\ refinement_calls' \in {refinement_calls, refinement_calls + 1}
    /\ ~(SendsCritique /\ SendsRefinement)
    /\ (~SendsCritique /\ ~SendsRefinement) => request' = request
    /\ SendsCritique =>
          /\ request'.kind = "feedback"
          /\ request'.round = feedback_calls'
          /\ \/ request = NoRequest /\ feedback_calls = 0
                                     /\ refinement_calls = 0
             \/ /\ request.kind = "refinement"
                /\ request'.round = request.round + 1
    /\ SendsRefinement =>
          /\ request.kind = "feedback"
          /\ request'.kind = "refinement"
          /\ request'.round = request.round
          /\ request'.round < max_iterations
          /\ request'.feedback = feedback_data'
          /\ feedback_data' =
                 ReviewFeedback(Sanitize(feedback_response')).feedback_data
          /\ ~TargetReached(quality_score', json_valid')
          /\ refinement_calls' = request.round

NoClaimsKeyText == Obj(<<"note:", "'text'">>)
EmptyClaimsText == BatchText(<<>>)

\* C26: a refinement response that is a valid JSON object with no claims
\* key, or with an empty claims list, counts as a successful refinement: it
\* decodes to an empty batch that replaces the current batch, so the batch
\* the loop returns can hold fewer claims than the initial batch, or none.
C26_EmptyRefinementReplacesBatch ==
    [][ /\ (/\ pc = "await_refinement"
            /\ pc' = "loop"
            /\ refinement_response' \in {NoClaimsKeyText, EmptyClaimsText}) =>
               /\ current_extraction' = Batch(<<>>)
               /\ last_refined' = Batch(<<>>)
        /\ (pc' = "done" /\ outcome' # "raised"
               /\ refinement_response' \in {NoClaimsKeyText, EmptyClaimsText}) =>
               result' = Batch(<<>>) ]_vars

C26_Witness ==
    /\ pc = "done"
    /\ outcome \in {"converged", "exhausted"}
    /\ refinement_response = NoClaimsKeyText
    /\ Len(initial_extraction.claims) = 2
    /\ result = Batch(<<>>)

\* ---------------------------------------------------------------------
\* The entries assess_claim_severity and route_claims_to_queues send to
\* the generator
\* ---------------------------------------------------------------------

\* a or b
PyOr(a, b) == IF Truthy(a) THEN a ELSE b

\* f"CLAIM-{idx+1}", idx the zero-based position, i = idx + 1
Placeholder(i) == JStr("CLAIM-" \o ToString(i))

\* claim.damage.location if claim.damage and claim.damage.location
\* else "Unknown"
DamageLocation(claim) ==
    IF claim.damage # JNull /\ Truthy(claim.damage.location)
    THEN claim.damage.location
    ELSE JStr("Unknown")

\* claim.damage.description if claim.damage else <default>
DamageDescription(claim, default) ==
    IF claim.damage # JNull THEN claim.damage.description ELSE JStr(default)

\* the list assess_claim_severity builds from the batch
claims_summary(batch_fnol_info) ==
    [i \in 1..Len(batch_fnol_info.claims) |->
        LET claim == batch_fnol_info.claims[i]
        IN  [claim_id |-> PyOr(claim.claim_id, Placeholder(i)),
             loss_desc |->
                 DamageDescription(claim, "No damage description provided"),
             damage_area |-> DamageLocation(claim),
             incident_description |->
                 PyOr(claim.incident_description,
                      JStr("No incident description"))]]

\* len of zip(a, b)
ZipLen(a, b) == IF Len(a) <= Len(b) THEN Len(a) ELSE Len(b)

\* one entry of claims_for_routing
ClaimData(claim, assessment, i) ==
    [claim_id |-> PyOr(claim.claim_id, Placeholder(i)),
     severity |-> assessment.severity,
     estimated_cost |-> assessment.estimated_cost,
     damage_location |-> DamageLocation(claim),
     damage_description |-> DamageDescription(claim, "No description"),
     incident_description |->
         PyOr(claim.incident_description, JStr("No incident description"))]

\* each claim is paired with the assessment that carries its claim_id, if any
claims_for_routing_ById(batch_fnol_info, batch_severity) ==
    [i \in 1..ZipLen(batch_fnol_info.claims, batch_severity.assessments) |->
        LET claim == batch_fnol_info.claims[i]
            same  == { j \in 1..Len(batch_severity.assessments) :
                         batch_severity.assessments[j].claim_id
                             = claim.claim_id }
            j     == IF same = {} THEN i
                     ELSE CHOOSE k \in same : \A m \in same : k <= m
        IN  ClaimData(claim, batch_severity.assessments[j], i)]

\* the list route_claims_to_queues builds from the batch and the assessments
claims_for_routing(batch_fnol_info, batch_severity) ==
    [i \in 1..ZipLen(batch_fnol_info.claims, batch_severity.assessments) |->
        ClaimData(batch_fnol_info.claims[i],
                  batch_severity.assessments[i], i)]

\* a claim as the later stages read it
StagedClaim(id, damage, incident) ==
    [claim_id |-> id, incident_date |-> JNull, incident_location |-> JNull,
     policyholder_name |-> JNull, damage |-> damage,
     incident_description |-> incident]

LocatedDamage(text, location) ==
    [type |-> "DamageInfo", description |-> JStr(text),
     estimated_repair_cost |-> JNull, location |-> location]

StagedClaims ==
    { StagedClaim(JNull, JNull, JNull),
      StagedClaim(JStr(""), LocatedDamage("chip", JNull), JStr("hail")),
      StagedClaim(JStr("C001"), LocatedDamage("dent", JStr("door")),
                  JStr("hail")),
      StagedClaim(JStr("C002"), LocatedDamage("chip", JStr("")), JNull),
      StagedClaim(JStr("C002"), JNull, JStr("")) }

StagedBatches ==
    { Batch(claims) :
        claims \in UNION { [1..n -> StagedClaims] : n \in 0..MaxClaims } }

StagedAssessments ==
    { [claim_id |-> JStr("C001"), severity |-> JStr("Minor"),
       estimated_cost |-> JInt(5)],
      [claim_id |-> JStr("C002"), severity |-> JStr("Major"),
       estimated_cost |-> JInt(10)] }

StagedSeverities ==
    { [type |-> "BatchSeverityAssessment", assessments |-> a] :
        a \in UNION { [1..n -> StagedAssessments] : n \in 0..MaxEntries } }

\* assess_claim_severity or route_claims_to_queues is called
EntriesInit ==
    /\ fn \in {"assess_claim_severity", "route_claims_to_queues"}
    /\ fpc = "entry"
    /\ api_key \in ApiKeys
    /\ arg \in [batch_fnol_info : StagedBatches,
                batch_severity : IF fn = "route_claims_to_queues"
                                 THEN StagedSeverities ELSE {NoResult}]
    /\ ret = NoResult
    /\ enable_feedback_loop = FALSE
    /\ client_created = FALSE
    /\ calls = 0
    /\ response = <<>>
    /\ error = NoError
    /\ batch_info = NoResult
    /\ invoked = <<>>
    /\ severity_assessment = NoResult
    /\ pc = "idle"
    /\ max_iterations = DefaultMaxIterations
    /\ initial_extraction = NoResult
    /\ current_extraction = NoResult
    /\ iteration = 0
    /\ feedback_response = <<>>
    /\ feedback_data = JNull
    /\ quality_score = JNull
    /\ json_valid = JNull
    /\ refinement_response = <<>>
    /\ request = NoRequest
    /\ feedback_calls = 0
    /\ refinement_calls = 0
    /\ outcome = "none"
    /\ exception = "none"
    /\ result = NoResult
    /\ last_refined = NoResult
    /\ only_zero_scores = TRUE

\* the function tests the key, creates the client, builds its entries and
\* sends them in the prompt
SubmitEntries ==
    /\ fpc = "entry"
    /\ IF ApiKeyMissing(api_key)
       THEN /\ fpc' = "raised"
            /\ error' = ConfigError
            /\ UNCHANGED <<client_created, calls, request>>
       ELSE /\ client_created' = TRUE
            /\ calls' = calls + 1
            /\ request' =
                   [kind |-> fn, round |-> 0,
                    extraction |->
                        IF fn = "route_claims_to_queues"
                        THEN claims_for_routing(arg.batch_fnol_info,
                                                arg.batch_severity)
                        ELSE claims_summary(arg.batch_fnol_info),
                    feedback |-> JNull]
            /\ fpc' = "await_response"
            /\ UNCHANGED error
    /\ UNCHANGED <<fn, invoked, severity_assessment, api_key,
                   enable_feedback_loop, response, batch_info, arg, ret>>
    /\ UNCHANGED loop_vars

EntriesNext ==
    \/ SubmitEntries
    \/ StageGeneratorFails
    \/ \E text \in AssessmentTexts : AssessResponse(text)
    \/ \E text \in RoutingTexts : RouteResponse(text)

EntriesSpec == EntriesInit /\ [][EntriesNext]_vars

NoIdentifier(claim) == claim.claim_id \in {JNull, JStr("")}

\* the identifier an entry at position i carries for its claim
EntryId(claim, i) ==
    IF NoIdentifier(claim) THEN Placeholder(i) ELSE claim.claim_id

\* C27: route_claims_to_queues pairs claim and assessment by position, not
\* by claim identifier: it submits min(#claims, #assessments) entries, entry
\* i made of claim i and assessment i, so that claims past the shorter list
\* are left out; a claim without identifier is named CLAIM-<position+1>,
\* in the entries of assess_claim_severity too.
C27_PairedByPosition ==
    request.kind \in {"assess_claim_severity", "route_claims_to_queues"} =>
        LET claims  == arg.batch_fnol_info.claims
            entries == request.extraction
        IN  IF fn = "route_claims_to_queues"
            THEN LET assessments == arg.batch_severity.assessments
                 IN  /\ Len(entries) = ZipLen(claims, assessments)
                     /\ Len(entries) <= Len(claims)
                     /\ Len(entries) <= Len(assessments)
                     /\ Len(entries) \in {Len(claims), Len(assessments)}
                     /\ \A i \in 1..Len(entries) :
                          /\ entries[i].claim_id = EntryId(claims[i], i)
                          /\ entries[i].severity = assessments[i].severity
                          /\ entries[i].estimated_cost
                                 = assessments[i].estimated_cost
                          /\ entries[i].damage_description
                                 = DamageDescription(claims[i],
                                                     "No description")
            ELSE /\ Len(entries) = Len(claims)
                 /\ \A i \in 1..Len(entries) :
                        entries[i].claim_id = EntryId(claims[i], i)

C27_Witness ==
    /\ fn = "route_claims_to_queues"
    /\ request.kind = fn
    /\ Len(arg.batch_fnol_info.claims) = 2
    /\ arg.batch_fnol_info.claims[1].claim_id = JNull
    /\ arg.batch_fnol_info.claims[2].claim_id = JStr("C002")
    /\ Len(arg.batch_severity.assessments) = 1
    /\ arg.batch_severity.assessments[1].claim_id = JStr("C002")
    /\ Len(request.extraction) = 1
    /\ request.extraction[1].claim_id = JStr("CLAIM-1")
    /\ request.extraction[1].severity = JStr("Major")

====
